---------------------------- MODULE Spec2Model ----------------------------
(***************************************************************************)
(* A model of the SDF offset index of shengbozeng/BioPubDatabase:          *)
(*   - the streaming SDF record parser and the per-file indexer            *)
(*     (nih/pubchem/index/sdf_index_builder.py),                           *)
(*   - the LMDB-backed tables and the lookups (nih/pubchem/index/          *)
(*     sdf_index.py), the locator codec (record_locator.py) and the        *)
(*     helpers of utils_module.py.                                         *)
(*                                                                         *)
(* Conventions.                                                            *)
(*   - A byte string or str is a sequence of one-character strings; only   *)
(*     ASCII occurs, so one character is one byte.                         *)
(*   - Python's Optional[T] is a sequence of length <= 1: None is <<>>,    *)
(*     a present value v is <<v>>.                                         *)
(*   - An LMDB named database is a function whose DOMAIN is its key set.   *)
(*   - uuid5 is a hash that cannot be computed here: a UUID is the pair    *)
(*     of the namespace and the name it was derived from, i.e. the hash    *)
(*     is taken to be collision free.                                      *)
(***************************************************************************)
EXTENDS Integers, Sequences, FiniteSets, TLC

(***************************************************************************)
(* Bounds of the model.                                                    *)
(***************************************************************************)
\* Posting-list page size.  The program's value is 4096
\* (sdf_index_builder.py:73); the model pages after this many entries so
\* that page turnover happens within the bounded corpus.
PL_PAGE_SIZE == 2
\* Number of build() runs explored.
MaxBuilds == 2
\* Number of changes made to the source tree between builds.
MaxEdits == 1
\* The bits of a byte in the fields of a packed locator (8 in the program):
\* the range of every field scales with it.
ByteBits == 1
\* Number of lines of the files that the parser is run on line by line.
MaxLines == 5
MaxNameParts == 3
MaxAppends == 5
MaxRecNo == 1

None == <<>>
Some(v) == <<v>>

(***************************************************************************)
(* Characters and strings.                                                 *)
(***************************************************************************)
\* The characters the model uses, in code-point order.
Alphabet ==
  << "\t", "\n", "\r", " ", "$", "-", ".", "/",
     "0", "1", "2", "3", "4", "5", "6", "7", "8", "9", "<", ">",
     "A", "B", "C", "D", "E", "F", "G", "H", "I", "J", "K", "L", "M",
     "N", "O", "P", "Q", "R", "S", "T", "U", "V", "W", "X", "Y", "Z", "_",
     "a", "b", "c", "d", "e", "f", "g", "h", "i", "j", "k", "l", "m",
     "n", "o", "p", "q", "r", "s", "t", "u", "v", "w", "x", "y", "z", "|" >>

Ord(ch) == CHOOSE i \in 1..Len(Alphabet) : Alphabet[i] = ch

Digits == <<"0", "1", "2", "3", "4", "5", "6", "7", "8", "9">>
Lowers == <<"a", "b", "c", "d", "e", "f", "g", "h", "i", "j", "k", "l", "m",
            "n", "o", "p", "q", "r", "s", "t", "u", "v", "w", "x", "y", "z">>
Uppers == <<"A", "B", "C", "D", "E", "F", "G", "H", "I", "J", "K", "L", "M",
            "N", "O", "P", "Q", "R", "S", "T", "U", "V", "W", "X", "Y", "Z">>

IsDigitCh(ch) == \E i \in 1..10 : Digits[i] = ch
DigitVal(ch) == (CHOOSE i \in 1..10 : Digits[i] = ch) - 1

\* str.lower() / str.upper() on one character.
LowerCh(ch) ==
  IF \E i \in 1..26 : Uppers[i] = ch
  THEN Lowers[CHOOSE i \in 1..26 : Uppers[i] = ch] ELSE ch
UpperCh(ch) ==
  IF \E i \in 1..26 : Lowers[i] = ch
  THEN Uppers[CHOOSE i \in 1..26 : Lowers[i] = ch] ELSE ch
Lower(s) == [i \in 1..Len(s) |-> LowerCh(s[i])]
Upper(s) == [i \in 1..Len(s) |-> UpperCh(s[i])]

\* Python's < on str / bytes: lexicographic by code point, a proper prefix
\* is smaller.
RECURSIVE StrLess(_, _)
StrLess(s, t) ==
  IF t = <<>> THEN FALSE
  ELSE IF s = <<>> THEN TRUE
  ELSE IF s[1] # t[1] THEN Ord(s[1]) < Ord(t[1])
  ELSE StrLess(Tail(s), Tail(t))

StartsWith(s, p) == Len(s) >= Len(p) /\ SubSeq(s, 1, Len(p)) = p
EndsWith(s, p) ==
  Len(s) >= Len(p) /\ SubSeq(s, Len(s) - Len(p) + 1, Len(s)) = p
\* p in s
Contains(s, p) ==
  \E i \in 0..(Len(s) - Len(p)) : SubSeq(s, i + 1, i + Len(p)) = p

\* s.rstrip(chars) and s.lstrip(chars) for a set of characters.
RECURSIVE RStripSet(_, _)
RStripSet(s, chars) ==
  IF s # <<>> /\ s[Len(s)] \in chars
  THEN RStripSet(SubSeq(s, 1, Len(s) - 1), chars) ELSE s
RECURSIVE LStripSet(_, _)
LStripSet(s, chars) ==
  IF s # <<>> /\ s[1] \in chars THEN LStripSet(Tail(s), chars) ELSE s
\* bytes.strip() / str.strip() with no argument strip ASCII whitespace.
Whitespace == {" ", "\t", "\n", "\r"}
RStrip(s) == RStripSet(s, Whitespace)
Strip(s) == LStripSet(RStripSet(s, Whitespace), Whitespace)

\* str(n) for n >= 0.
RECURSIVE DecStr(_)
DecStr(n) ==
  IF n < 10 THEN <<Digits[n + 1]>>
  ELSE DecStr(n \div 10) \o <<Digits[(n % 10) + 1]>>
\* int(s) for a non-empty string of ASCII digits.
RECURSIVE IntOfDigits(_)
IntOfDigits(s) ==
  IF Len(s) = 1 THEN DigitVal(s[1])
  ELSE 10 * IntOfDigits(SubSeq(s, 1, Len(s) - 1)) + DigitVal(s[Len(s)])

\* "sep".join(parts)
RECURSIVE Join(_, _)
Join(parts, sep) ==
  IF parts = <<>> THEN <<>>
  ELSE IF Len(parts) = 1 THEN parts[1]
  ELSE parts[1] \o sep \o Join(Tail(parts), sep)

(***************************************************************************)
(* utils_module.py                                                         *)
(***************************************************************************)
_norm_field_name(name) == Upper(Strip(name))

\* bytes.isdigit(): non-empty and every byte an ASCII digit.
_is_int_ascii(s) == s # <<>> /\ \A i \in 1..Len(s) : IsDigitCh(s[i])

\* A variant that gives every record the compound prefix.
_uuid_to_keyprefix_always_C(is_conformer) == "C"
_uuid_to_keyprefix(is_conformer) == IF is_conformer THEN "F" ELSE "C"

\* uuid.uuid5(ALID_NAMESPACE, s): the UUID that the namespace and the name
\* determine.
ALID_NAMESPACE == "6ba7b811-9dad-11d1-80b4-00c04fd430c8"
Uuid5(ns, s) == [namespace |-> ns, name |-> s]

\* kind is "compound" or "conformer"; the f-string formats it as text.
KindText(kind) ==
  IF kind = "compound" THEN <<"c", "o", "m", "p", "o", "u", "n", "d">>
  ELSE <<"c", "o", "n", "f", "o", "r", "m", "e", "r">>

_make_alid(kind, relpath, rec_no, primary_id) ==
  Uuid5(ALID_NAMESPACE,
        KindText(kind) \o <<"|">> \o relpath \o <<"|">> \o DecStr(rec_no)
          \o <<"|">> \o primary_id)

\* any(p.search(t) for p in patterns): the default patterns are literal
\* strings compiled with re.I, searched in the lowercased text.
_match_any(patterns, text) ==
  \E i \in 1..Len(patterns) : Contains(Lower(text), Lower(patterns[i]))

\* A variant that tries the compound patterns first.
_determine_kind_compound_first(name_parts, compound_patterns, conformer_patterns) ==
  LET name == Lower(name_parts[Len(name_parts)]) IN
  IF _match_any(compound_patterns, name) THEN "compound"
  ELSE IF _match_any(conformer_patterns, name) THEN "conformer"
  ELSE IF Contains(name, <<"c", "o", "n", "f">>) THEN "conformer"
  ELSE "compound"
\* file_path.name is the last path component.
_determine_kind(name_parts, compound_patterns, conformer_patterns) ==
  LET name == Lower(name_parts[Len(name_parts)]) IN
  IF _match_any(conformer_patterns, name) THEN "conformer"
  ELSE IF _match_any(compound_patterns, name) THEN "compound"
  ELSE IF Contains(name, <<"c", "o", "n", "f">>) THEN "conformer"
  ELSE "compound"

(***************************************************************************)
(* sdf_index_builder.py: configuration                                     *)
(***************************************************************************)
DEFAULT_COMPOUND_PATTERNS ==
  << <<"c", "o", "m", "p", "o", "u", "n", "d">>,
     <<"c", "m", "p", "d">>,
     <<"c", "o", "m", "p", "o", "u", "n", "d", "s">> >>
DEFAULT_CONFORMER_PATTERNS ==
  << <<"c", "o", "n", "f", "o", "r", "m", "e", "r">>,
     <<"c", "o", "n", "f">>,
     <<"c", "o", "n", "f", "o", "r", "m", "e", "r", "s">> >>
CID_FIELD_CANDIDATES ==
  << <<"C", "I", "D">>,
     <<"P", "U", "B", "C", "H", "E", "M", "_", "C", "O", "M", "P", "O", "U",
       "N", "D", "_", "C", "I", "D">>,
     <<"P", "U", "B", "C", "H", "E", "M", "_", "C", "I", "D">>,
     <<"C", "O", "M", "P", "O", "U", "N", "D", "_", "C", "I", "D">> >>
CONFORMER_ID_FIELD_CANDIDATES ==
  << <<"C", "O", "N", "F", "O", "R", "M", "E", "R", "_", "I", "D">>,
     <<"C", "O", "N", "F", "I", "D">>,
     <<"P", "U", "B", "C", "H", "E", "M", "_", "C", "O", "N", "F", "O", "R",
       "M", "E", "R", "_", "I", "D">>,
     <<"C", "O", "N", "F", "O", "R", "M", "E", "R", "I", "D">> >>
PARENT_CID_FIELD_CANDIDATES ==
  << <<"C", "I", "D">>,
     <<"P", "U", "B", "C", "H", "E", "M", "_", "C", "O", "M", "P", "O", "U",
       "N", "D", "_", "C", "I", "D">>,
     <<"P", "U", "B", "C", "H", "E", "M", "_", "C", "I", "D">>,
     <<"C", "O", "M", "P", "O", "U", "N", "D", "_", "C", "I", "D">>,
     <<"P", "A", "R", "E", "N", "T", "_", "C", "I", "D">> >>

\* SDFIndexBuilder.__init__: the candidate lists, normalised.
cid_fields ==
  {_norm_field_name(CID_FIELD_CANDIDATES[i]) :
     i \in 1..Len(CID_FIELD_CANDIDATES)}
confid_fields ==
  {_norm_field_name(CONFORMER_ID_FIELD_CANDIDATES[i]) :
     i \in 1..Len(CONFORMER_ID_FIELD_CANDIDATES)}
parent_cid_fields ==
  {_norm_field_name(PARENT_CID_FIELD_CANDIDATES[i]) :
     i \in 1..Len(PARENT_CID_FIELD_CANDIDATES)}

(***************************************************************************)
(* sdf_index_builder.py: the record parser of _index_one_file              *)
(***************************************************************************)
\* A variant that numbers the records of a file from 1.
ParserInit_one_based ==
  [ pos |-> 0, rec_start |-> 0, rec_no |-> 1, title_line |-> None,
    in_prop |-> FALSE, cur_field |-> None, cur_val_lines |-> <<>>,
    cid_val |-> None, conf_id_val |-> None, parent_cid_val |-> None ]
\* The parser's local variables at the top of the read loop; pos is f.tell().
ParserInit ==
  [ pos |-> 0, rec_start |-> 0, rec_no |-> 0, title_line |-> None,
    in_prop |-> FALSE, cur_field |-> None, cur_val_lines |-> <<>>,
    cid_val |-> None, conf_id_val |-> None, parent_cid_val |-> None ]

\* A variant that takes the last non-empty stripped line.
FirstValue_takes_last(lines) ==
  LET idx == { i \in 1..Len(lines) : Strip(lines[i]) # <<>> }
  IN IF idx = {} THEN None
     ELSE Some(Strip(lines[CHOOSE i \in idx : \A j \in idx : j <= i]))
\* The first non-empty stripped line of cur_val_lines, or None.
RECURSIVE FirstValue(_)
FirstValue(lines) ==
  IF lines = <<>> THEN None
  ELSE IF Strip(lines[1]) # <<>> THEN Some(Strip(lines[1]))
  ELSE FirstValue(Tail(lines))

\* A variant without the "is None" tests: a later property replaces the
\* value.
finalize_field_last_wins(ps) ==
  IF ps.cur_field = None \/ ps.cur_field = Some(<<>>) THEN ps
  ELSE
    LET v == FirstValue(ps.cur_val_lines)
        fn == _norm_field_name(ps.cur_field[1])
        cid1 ==
          IF v # None /\ fn \in cid_fields /\ TRUE
                /\ _is_int_ascii(v[1])
          THEN Some(IntOfDigits(v[1])) ELSE ps.cid_val
        par1 ==
          IF v # None /\ fn \in parent_cid_fields /\ TRUE
                /\ _is_int_ascii(v[1])
          THEN Some(IntOfDigits(v[1])) ELSE ps.parent_cid_val
        conf1 ==
          IF v # None /\ fn \in confid_fields /\ TRUE
          THEN Some(v[1]) ELSE ps.conf_id_val
    IN [ps EXCEPT !.cid_val = cid1, !.parent_cid_val = par1,
                  !.conf_id_val = conf1,
                  !.cur_field = None, !.cur_val_lines = <<>>]

finalize_field(ps) ==
  IF ps.cur_field = None \/ ps.cur_field = Some(<<>>) THEN ps
  ELSE
    LET v == FirstValue(ps.cur_val_lines)
        fn == _norm_field_name(ps.cur_field[1])
        cid1 ==
          IF v # None /\ fn \in cid_fields /\ ps.cid_val = None
                /\ _is_int_ascii(v[1])
          THEN Some(IntOfDigits(v[1])) ELSE ps.cid_val
        par1 ==
          IF v # None /\ fn \in parent_cid_fields /\ ps.parent_cid_val = None
                /\ _is_int_ascii(v[1])
          THEN Some(IntOfDigits(v[1])) ELSE ps.parent_cid_val
        conf1 ==
          IF v # None /\ fn \in confid_fields /\ ps.conf_id_val = None
          THEN Some(v[1]) ELSE ps.conf_id_val
    IN [ps EXCEPT !.cid_val = cid1, !.parent_cid_val = par1,
                  !.conf_id_val = conf1,
                  !.cur_field = None, !.cur_val_lines = <<>>]

\* re.search(rb"> <([^>]+)>", line): group 1 of the leftmost match, or None.
FieldMatchAt(line, i) ==
  /\ i + 4 <= Len(line)
  /\ SubSeq(line, i, i + 2) = <<">", " ", "<">>
  /\ line[i + 3] # ">"
  /\ \E j \in (i + 4)..Len(line) : line[j] = ">"
FieldMatchGroup(line, i) ==
  LET j == CHOOSE k \in (i + 4)..Len(line) :
             line[k] = ">" /\ \A m \in (i + 4)..(k - 1) : line[m] # ">"
  IN SubSeq(line, i + 3, j - 1)
SearchField(line) ==
  IF \E i \in 1..Len(line) : FieldMatchAt(line, i)
  THEN LET i == CHOOSE k \in 1..Len(line) :
                  FieldMatchAt(line, k)
                    /\ \A m \in 1..(k - 1) : ~FieldMatchAt(line, m)
       IN Some(FieldMatchGroup(line, i))
  ELSE None

IsPropertyHeader(line) ==
  StartsWith(line, <<">", " ", "<">>) /\ EndsWith(RStrip(line), <<">">>)
IsTerminator(line) == Strip(line) = <<"$", "$", "$", "$">>

\* A variant in which the property-value block ends with "continue", so that
\* a line inside a property is not looked at as a terminator.
ParserStep_continue_in_prop(ps, line, kind) ==
  LET p0 == [ps EXCEPT !.pos = ps.pos + Len(line)]
      \* first line of the record (title)
      title == RStripSet(line, {"\r", "\n"})
      p1 == IF p0.title_line = None
            THEN [p0 EXCEPT
                    !.title_line = Some(title),
                    !.cid_val =
                       IF kind = "compound" /\ _is_int_ascii(Strip(title))
                       THEN Some(IntOfDigits(Strip(title))) ELSE @]
            ELSE p0
  IN
  IF IsPropertyHeader(line)
  THEN \* property header: finalize, open the property, continue
    LET f == finalize_field(p1)
        m == SearchField(line)
    IN [ ps |-> IF m # None
                THEN [f EXCEPT !.cur_field = m, !.cur_val_lines = <<>>,
                               !.in_prop = TRUE]
                ELSE [f EXCEPT !.cur_field = None, !.in_prop = FALSE],
         emit |-> None ]
  ELSE
    LET \* property value ends at a blank line
        p2 == IF p1.in_prop
              THEN IF Strip(line) = <<>>
                   THEN [finalize_field(p1) EXCEPT !.in_prop = FALSE]
                   ELSE [p1 EXCEPT !.cur_val_lines = Append(@, line)]
              ELSE p1
    IN
    IF IsTerminator(line) /\ ~p1.in_prop
    THEN
      LET f == finalize_field(p2) IN
      [ ps |-> [ pos |-> f.pos, rec_start |-> f.pos,
                 rec_no |-> f.rec_no + 1, title_line |-> None,
                 in_prop |-> FALSE, cur_field |-> None,
                 cur_val_lines |-> <<>>, cid_val |-> None,
                 conf_id_val |-> None, parent_cid_val |-> None ],
        emit |-> Some([ rec_start |-> f.rec_start, rec_end |-> f.pos,
                        rec_no |-> f.rec_no, cid_val |-> f.cid_val,
                        conf_id_val |-> f.conf_id_val,
                        parent_cid_val |-> f.parent_cid_val ]) ]
    ELSE [ ps |-> p2, emit |-> None ]

\* One pass of the read loop for a line that readline() returned.  The
\* result is the parser's variables after the pass and the record emitted
\* by it, if any.
ParserStep(ps, line, kind) ==
  LET p0 == [ps EXCEPT !.pos = ps.pos + Len(line)]
      \* first line of the record (title)
      title == RStripSet(line, {"\r", "\n"})
      p1 == IF p0.title_line = None
            THEN [p0 EXCEPT
                    !.title_line = Some(title),
                    !.cid_val =
                       IF kind = "compound" /\ _is_int_ascii(Strip(title))
                       THEN Some(IntOfDigits(Strip(title))) ELSE @]
            ELSE p0
  IN
  IF IsPropertyHeader(line)
  THEN \* property header: finalize, open the property, continue
    LET f == finalize_field(p1)
        m == SearchField(line)
    IN [ ps |-> IF m # None
                THEN [f EXCEPT !.cur_field = m, !.cur_val_lines = <<>>,
                               !.in_prop = TRUE]
                ELSE [f EXCEPT !.cur_field = None, !.in_prop = FALSE],
         emit |-> None ]
  ELSE
    LET \* property value ends at a blank line
        p2 == IF p1.in_prop
              THEN IF Strip(line) = <<>>
                   THEN [finalize_field(p1) EXCEPT !.in_prop = FALSE]
                   ELSE [p1 EXCEPT !.cur_val_lines = Append(@, line)]
              ELSE p1
    IN
    IF IsTerminator(line)
    THEN
      LET f == finalize_field(p2) IN
      [ ps |-> [ pos |-> f.pos, rec_start |-> f.pos,
                 rec_no |-> f.rec_no + 1, title_line |-> None,
                 in_prop |-> FALSE, cur_field |-> None,
                 cur_val_lines |-> <<>>, cid_val |-> None,
                 conf_id_val |-> None, parent_cid_val |-> None ],
        emit |-> Some([ rec_start |-> f.rec_start, rec_end |-> f.pos,
                        rec_no |-> f.rec_no, cid_val |-> f.cid_val,
                        conf_id_val |-> f.conf_id_val,
                        parent_cid_val |-> f.parent_cid_val ]) ]
    ELSE [ ps |-> p2, emit |-> None ]

\* The records the read loop emits for a file, in order, until EOF.
RECURSIVE ParseFrom(_, _, _)
ParseFrom(ps, lines, kind) ==
  IF lines = <<>> THEN <<>>
  ELSE LET r == ParserStep(ps, lines[1], kind)
       IN r.emit \o ParseFrom(r.ps, Tail(lines), kind)
ParseRecords(lines, kind) == ParseFrom(ParserInit, lines, kind)

(***************************************************************************)
(* record_locator.py                                                       *)
(***************************************************************************)
FLAG_IS_CONFORMER == 1

RecordLocator(file_id, start, end, is_conformer, cid) ==
  [ file_id |-> file_id, start |-> start, end |-> end,
    is_conformer |-> is_conformer, cid |-> cid ]

\* A variant that sets the flag of the other kind.
to_bytes_flag_inverted(loc) ==
  LET cid_i64 == IF loc.cid = None THEN -1 ELSE loc.cid[1]
      flags == IF loc.is_conformer THEN 0 ELSE FLAG_IS_CONFORMER
  IN << loc.file_id, loc.start, loc.end, flags, cid_i64, 0 >>
\* RECORD_STRUCT.pack(...): the six fields of "<IQQHqH" in order.
to_bytes(loc) ==
  LET cid_i64 == IF loc.cid = None THEN -1 ELSE loc.cid[1]
      flags == IF loc.is_conformer THEN FLAG_IS_CONFORMER ELSE 0
  IN << loc.file_id, loc.start, loc.end, flags, cid_i64, 0 >>

\* A variant that does not read the flags.
from_bytes_without_flags(b) ==
  RecordLocator(b[1], b[2], b[3], FALSE,
                IF b[5] = -1 THEN None ELSE Some(b[5]))
\* RECORD_STRUCT.unpack(b)
from_bytes(b) ==
  RecordLocator(b[1], b[2], b[3],
                (b[4] % (2 * FLAG_IS_CONFORMER)) >= FLAG_IS_CONFORMER,
                IF b[5] = -1 THEN None ELSE Some(b[5]))


\* How a call ends: it returns a value, or raises an exception.
Ok(v) == [ ok |-> TRUE, value |-> <<v>>, error |-> "" ]
Raise(e) == [ ok |-> FALSE, value |-> <<>>, error |-> e ]

\* struct.Struct("<IQQHqH"): the format codes of the fields in order, the
\* bytes each takes, and the values it holds.  A byte of the model has
\* ByteBits bits.
RECORD_STRUCT == <<"I", "Q", "Q", "H", "q", "H">>
FieldBytes(code) ==
  CASE code = "I" -> 4
    [] code \in {"Q", "q"} -> 8
    [] code = "H" -> 2
RECURSIVE Pow2(_)
Pow2(n) == IF n = 0 THEN 1 ELSE 2 * Pow2(n - 1)
FieldBits(code) == FieldBytes(code) * ByteBits
FieldMin(code) == IF code = "q" THEN 0 - Pow2(FieldBits(code) - 1) ELSE 0
FieldMax(code) ==
  IF code = "q" THEN Pow2(FieldBits(code) - 1) - 1
  ELSE Pow2(FieldBits(code)) - 1
RECURSIVE calcsize(_)
calcsize(fmt) ==
  IF fmt = <<>> THEN 0 ELSE FieldBytes(fmt[1]) + calcsize(Tail(fmt))
\* len(b) of a buffer given as the fields it holds: a buffer that is cut
\* short lacks its last fields, one that is too long has further ones.
BufferLen(b) ==
  IF Len(b) <= Len(RECORD_STRUCT)
  THEN calcsize(SubSeq(RECORD_STRUCT, 1, Len(b)))
  ELSE calcsize(RECORD_STRUCT) + 2 * (Len(b) - Len(RECORD_STRUCT))
\* struct.pack raises struct.error for a value outside its field.
PackFits(fmt, vals) ==
  \A i \in 1..Len(fmt) :
    vals[i] >= FieldMin(fmt[i]) /\ vals[i] <= FieldMax(fmt[i])

\* A variant that puts no cid into the buffer.
RecordLocator_to_bytes_drops_cid(loc) ==
  LET b == to_bytes([loc EXCEPT !.cid = None]) IN
  IF PackFits(RECORD_STRUCT, b) THEN Ok(b) ELSE Raise("struct.error")
\* RecordLocator.to_bytes() as a call: the buffer, or struct.error
RecordLocator_to_bytes(loc) ==
  LET b == to_bytes(loc) IN
  IF PackFits(RECORD_STRUCT, b) THEN Ok(b) ELSE Raise("struct.error")
\* RecordLocator.from_bytes(b) as a call: unpack raises struct.error for a
\* buffer that has not the size of the format.
RecordLocator_from_bytes(b) ==
  IF BufferLen(b) = calcsize(RECORD_STRUCT) THEN Ok(from_bytes(b))
  ELSE Raise("struct.error")

(***************************************************************************)
(* sdf_index.py: the LMDB environment                                      *)
(***************************************************************************)
SCHEMA_VERSION == 1

\* txn.get(k, db=...) and txn.put(k, v, db=...)
Get(db, k) == IF k \in DOMAIN db THEN Some(db[k]) ELSE None
\* A variant of txn.put with overwrite=False: an existing key keeps its value.
Put_no_overwrite(db, k, v) ==
  [x \in (DOMAIN db) \cup {k} |-> IF x \in DOMAIN db THEN db[x] ELSE v]
Put(db, k, v) == [x \in (DOMAIN db) \cup {k} |-> IF x = k THEN v ELSE db[x]]
EmptyDb == [x \in {} |-> x]

\* The named databases after lmdb.open() created the environment.  meta
\* holds two keys, meta_json and file_id_counter.  pl_appended is a history
\* table, not one of the program's: it counts the _pl_append calls per CID.
EmptyStore ==
  [ meta_json |-> None, file_id_counter |-> None,
    files |-> EmptyDb, files_rev |-> EmptyDb, records |-> EmptyDb,
    cid_to_compound |-> EmptyDb, confid_to_conf |-> EmptyDb,
    cid2conf_h |-> EmptyDb, cid2conf_p |-> EmptyDb,
    pl_appended |-> EmptyDb ]

\* with env.begin(write=True) as txn: the block's writes become the
\* environment's state when the block ends normally, and are dropped when it
\* ends with an exception.
CommitTxn(committed, txn) == txn
\* A variant in which the writes of a failed block stay.
AbortTxn_keeps_writes(committed, txn) == txn
AbortTxn(committed, txn) == committed

get_meta(st) == st.meta_json
_set_meta(st, meta) == CommitTxn(st, [st EXCEPT !.meta_json = Some(meta)])

\* A variant that does not store the counter it incremented.
_get_or_create_file_id_new_no_counter(txn, relpath) ==
  LET counter == IF txn.file_id_counter = None THEN 0
                 ELSE txn.file_id_counter[1]
      file_id == counter + 1
  IN [ txn |-> [txn EXCEPT !.files_rev = Put(@, relpath, file_id),
                           !.files = Put(@, file_id, relpath)],
       file_id |-> file_id ]
\* The result is the transaction after the call and the file_id returned.
\* The branch taken when files_rev has no entry for relpath:
_get_or_create_file_id_new(txn, relpath) ==
  LET counter == IF txn.file_id_counter = None THEN 0
                 ELSE txn.file_id_counter[1]
      file_id == counter + 1
  IN [ txn |-> [txn EXCEPT !.file_id_counter = Some(file_id),
                           !.files_rev = Put(@, relpath, file_id),
                           !.files = Put(@, file_id, relpath)],
       file_id |-> file_id ]
\* A variant that never looks the path up.
_get_or_create_file_id_always_new(txn, relpath) ==
  _get_or_create_file_id_new(txn, relpath)
_get_or_create_file_id(txn, relpath) ==
  LET existing == Get(txn.files_rev, relpath) IN
  IF existing # None
  THEN [ txn |-> txn, file_id |-> existing[1] ]
  ELSE _get_or_create_file_id_new(txn, relpath)

resolve_file_path(st, file_id) == Get(st.files, file_id)

(***************************************************************************)
(* sdf_index_builder.py: posting lists and the per-record writes           *)
(***************************************************************************)
CidKey(cid) == DecStr(cid)
\* A variant that leaves the CID out of the page key.
PageKey_without_cid(cid_k, page_no) == DecStr(page_no)
PageKey(cid_k, page_no) == cid_k \o <<"|">> \o DecStr(page_no)

\* A page blob is the concatenation of 16-byte ALIDs: a sequence of ALIDs.
UUID_BYTES == 16
BlobLen(blob) == UUID_BYTES * Len(blob)

\* "if n < PL_PAGE_SIZE": the last page has room for one more ALID.
\* A variant that is off by one:
PageHasRoom_off_by_one(n) == n <= PL_PAGE_SIZE
PageHasRoom(n) == n < PL_PAGE_SIZE

_pl_append(txn, cid, uuid16) ==
  LET cid_k == CidKey(cid)
      h == Get(txn.cid2conf_h, cid_k)
      page_count == IF h # None THEN h[1] ELSE 0
      counted == [txn EXCEPT !.pl_appended =
                    Put(@, cid_k, IF cid_k \in DOMAIN @ THEN @[cid_k] + 1
                                  ELSE 1)]
  IN
  IF page_count = 0
  THEN [counted EXCEPT
          !.cid2conf_p = Put(@, PageKey(cid_k, 0), <<uuid16>>),
          !.cid2conf_h = Put(@, cid_k, 1)]
  ELSE
    LET pk == PageKey(cid_k, page_count - 1)
        got == Get(txn.cid2conf_p, pk)
        blob == IF got # None THEN got[1] ELSE <<>>
        n == BlobLen(blob) \div UUID_BYTES
    IN
    IF PageHasRoom(n)
    THEN [counted EXCEPT !.cid2conf_p = Put(@, pk, blob \o <<uuid16>>)]
    ELSE [counted EXCEPT
            !.cid2conf_p = Put(@, PageKey(cid_k, page_count), <<uuid16>>),
            !.cid2conf_h = Put(@, cid_k, page_count + 1)]

\* rec_key = _uuid_to_keyprefix(is_conf) + alid.bytes
RecKey(prefix, alid) == <<prefix, alid>>
\* uuid.UUID(bytes=rec_key[1:17])
AlidOfKey(rec_key) == rec_key[2]

\* A variant in which a conformer takes its parent CID before its own.
IndexRecord_parent_first(txn, file_id, relpath, kind, rec) ==
  LET is_conf == kind # "compound"
      primary ==
        IF kind = "compound"
        THEN (IF rec.cid_val # None THEN DecStr(rec.cid_val[1]) ELSE <<>>)
        ELSE (IF rec.conf_id_val # None THEN rec.conf_id_val[1] ELSE <<>>)
      alid == _make_alid(kind, relpath, rec.rec_no, primary)
      eff_cid ==
        IF kind = "compound" THEN rec.cid_val
        ELSE IF rec.parent_cid_val # None THEN rec.parent_cid_val
        ELSE rec.cid_val
      rec_key == RecKey(_uuid_to_keyprefix(is_conf), alid)
      loc == RecordLocator(file_id, rec.rec_start, rec.rec_end, is_conf,
                           eff_cid)
      t1 == [txn EXCEPT !.records = Put(@, rec_key, to_bytes(loc))]
  IN
  IF ~is_conf
  THEN IF rec.cid_val # None
       THEN [t1 EXCEPT !.cid_to_compound =
                         Put(@, CidKey(rec.cid_val[1]), rec_key)]
       ELSE t1
  ELSE
    LET \* "if conf_id_val is not None": the empty string is not None
        t2 == IF rec.conf_id_val # None
              THEN [t1 EXCEPT !.confid_to_conf =
                                Put(@, rec.conf_id_val[1], rec_key)]
              ELSE t1
    IN IF eff_cid # None THEN _pl_append(t2, eff_cid[1], alid) ELSE t2

\* The body of "if line.strip() == b'$$$$'" for one emitted record: the
\* ALID, the locator and the writes into the transaction.
IndexRecord(txn, file_id, relpath, kind, rec) ==
  LET is_conf == kind # "compound"
      primary ==
        IF kind = "compound"
        THEN (IF rec.cid_val # None THEN DecStr(rec.cid_val[1]) ELSE <<>>)
        ELSE (IF rec.conf_id_val # None THEN rec.conf_id_val[1] ELSE <<>>)
      alid == _make_alid(kind, relpath, rec.rec_no, primary)
      eff_cid ==
        IF kind = "compound" THEN rec.cid_val
        ELSE IF rec.cid_val # None THEN rec.cid_val ELSE rec.parent_cid_val
      rec_key == RecKey(_uuid_to_keyprefix(is_conf), alid)
      loc == RecordLocator(file_id, rec.rec_start, rec.rec_end, is_conf,
                           eff_cid)
      t1 == [txn EXCEPT !.records = Put(@, rec_key, to_bytes(loc))]
  IN
  IF ~is_conf
  THEN IF rec.cid_val # None
       THEN [t1 EXCEPT !.cid_to_compound =
                         Put(@, CidKey(rec.cid_val[1]), rec_key)]
       ELSE t1
  ELSE
    LET \* "if conf_id_val is not None": the empty string is not None
        t2 == IF rec.conf_id_val # None
              THEN [t1 EXCEPT !.confid_to_conf =
                                Put(@, rec.conf_id_val[1], rec_key)]
              ELSE t1
    IN IF eff_cid # None THEN _pl_append(t2, eff_cid[1], alid) ELSE t2

RECURSIVE IndexRecords(_, _, _, _, _)
IndexRecords(txn, file_id, relpath, kind, recs) ==
  IF recs = <<>> THEN txn
  ELSE IndexRecords(IndexRecord(txn, file_id, relpath, kind, recs[1]),
                    file_id, relpath, kind, Tail(recs))

(***************************************************************************)
(* sdf_index.py: lookups                                                   *)
(***************************************************************************)
IndexHit(alid, locator) == [ alid |-> alid, locator |-> locator ]

\* get_by_alid(alid, is_conformer) with is_conformer None, TRUE or FALSE.
get_by_alid(st, alid, is_conformer) ==
  LET key_c == RecKey("C", alid)
      key_f == RecKey("F", alid)
  IN
  IF is_conformer = None
  THEN IF Get(st.records, key_c) # None
       THEN Some(IndexHit(alid, from_bytes(st.records[key_c])))
       ELSE IF Get(st.records, key_f) # None
       THEN Some(IndexHit(alid, from_bytes(st.records[key_f])))
       ELSE None
  ELSE LET k == IF is_conformer[1] THEN key_f ELSE key_c IN
       IF Get(st.records, k) = None THEN None
       ELSE Some(IndexHit(alid, from_bytes(st.records[k])))

\* The two-table lookup shared by the point and the batch lookups.
LookupVia(st, db, k) ==
  LET rec_key == Get(db, k) IN
  IF rec_key = None THEN None
  ELSE LET b == Get(st.records, rec_key[1]) IN
       IF b = None THEN None
       ELSE Some(IndexHit(AlidOfKey(rec_key[1]), from_bytes(b[1])))

get_compound_by_cid(st, cid) == LookupVia(st, st.cid_to_compound, CidKey(cid))
get_conformer_by_conformer_id(st, conformer_id) ==
  LookupVia(st, st.confid_to_conf, conformer_id)

\* A variant that yields a hit for every ALID of the page.
RECURSIVE PageHits_without_skip(_, _)
PageHits_without_skip(st, blob) ==
  IF blob = <<>> THEN <<>>
  ELSE LET rec_val == Get(st.records, RecKey("F", blob[1])) IN
       <<IndexHit(blob[1], IF rec_val = None THEN None
                           ELSE from_bytes(rec_val[1]))>>
       \o PageHits_without_skip(st, Tail(blob))
\* The hits of one page blob, in order.
RECURSIVE PageHits(_, _)
PageHits(st, blob) ==
  IF blob = <<>> THEN <<>>
  ELSE LET rec_val == Get(st.records, RecKey("F", blob[1])) IN
       (IF rec_val = None THEN <<>>
        ELSE <<IndexHit(blob[1], from_bytes(rec_val[1]))>>)
       \o PageHits(st, Tail(blob))

\* The hits of pages page_no .. page_count - 1.
RECURSIVE PagesFrom(_, _, _, _)
PagesFrom(st, cid_k, page_no, page_count) ==
  IF page_no >= page_count THEN <<>>
  ELSE LET blob == Get(st.cid2conf_p, PageKey(cid_k, page_no)) IN
       (IF blob = None THEN <<>> ELSE PageHits(st, blob[1]))
       \o PagesFrom(st, cid_k, page_no + 1, page_count)

\* The sequence of hits the generator yields when run to its end.
iter_conformers_by_cid(st, cid) ==
  LET cid_k == CidKey(cid)
      h == Get(st.cid2conf_h, cid_k)
  IN IF h = None THEN <<>> ELSE PagesFrom(st, cid_k, 0, h[1])

(***************************************************************************)
(* The source tree: the *.sdf files under root_dir.  A file is named by    *)
(* the components of its path relative to root_dir, and holds the lines    *)
(* that readline() returns.                                                *)
(***************************************************************************)
PathA == << <<"a">>, <<"c", "o", "n", "f", ".", "s", "d", "f">> >>
PathB == << <<"a", "-", "c", "o", "n", "f", ".", "s", "d", "f">> >>
PathC == << <<"c", ".", "s", "d", "f">> >>
Paths == {PathA, PathB, PathC}

\* One conformer record with a title line, CID 7 and conformer id A.
FileK1 ==
  << <<"m", "\n">>,
     <<">", " ", "<", "C", "I", "D", ">", "\n">>,
     <<"7", "\n">>,
     <<"\n">>,
     <<">", " ", "<", "C", "O", "N", "F", "I", "D", ">", "\n">>,
     <<"A", "\n">>,
     <<"\n">>,
     <<"$", "$", "$", "$", "\n">> >>
\* Two conformer records: CID 7 / id A, and parent CID 7 / id B.
FileK2 ==
  << <<">", " ", "<", "C", "I", "D", ">", "\n">>,
     <<"7", "\n">>,
     <<">", " ", "<", "C", "O", "N", "F", "I", "D", ">", "\n">>,
     <<"A", "\n">>,
     <<"$", "$", "$", "$", "\n">>,
     <<"n", "\n">>,
     <<">", " ", "<", "P", "A", "R", "E", "N", "T", "_", "C", "I", "D", ">",
       "\n">>,
     <<"7", "\n">>,
     <<">", " ", "<", "C", "O", "N", "F", "I", "D", ">", "\n">>,
     <<"B", "\n">>,
     <<"$", "$", "$", "$", "\n">> >>
\* Two compound records: title 7, and a title that is no CID.
FileM1 ==
  << <<"7", "\n">>,
     <<"$", "$", "$", "$", "\n">>,
     <<"x", "\n">>,
     <<"$", "$", "$", "$", "\n">> >>
\* One compound record: title 8 and a CID property 9.
FileM2 ==
  << <<"8", "\n">>,
     <<">", " ", "<", "C", "I", "D", ">", "\n">>,
     <<"9", "\n">>,
     <<"\n">>,
     <<"$", "$", "$", "$", "\n">> >>

\* Two compound records and no newline at the end of the file: an empty
\* title line, and title 7.
FileS1 ==
  << <<"\n">>,
     <<"$", "$", "$", "$", "\n">>,
     <<"7", "\n">>,
     <<"$", "$", "$", "$">> >>
\* Two compound records and the start of a third: CRLF line ends with title
\* 7, and title 8 with blanks around the terminator.
FileS2 ==
  << <<"7", "\r", "\n">>,
     <<"$", "$", "$", "$", "\r", "\n">>,
     <<"8", "\n">>,
     <<" ", "$", "$", "$", "$", " ", "\n">>,
     <<"9", "\n">> >>
\* Two conformer records with the same conformer id A: CID 8, and no CID.
FileK3 ==
  << <<">", " ", "<", "C", "I", "D", ">", "\n">>,
     <<"8", "\n">>,
     <<">", " ", "<", "C", "O", "N", "F", "I", "D", ">", "\n">>,
     <<"A", "\n">>,
     <<"$", "$", "$", "$", "\n">>,
     <<">", " ", "<", "C", "O", "N", "F", "I", "D", ">", "\n">>,
     <<"A", "\n">>,
     <<"$", "$", "$", "$", "\n">> >>
\* Two compound records with the same title 7.
FileM3 ==
  << <<"7", "\n">>,
     <<"$", "$", "$", "$", "\n">>,
     <<"7", "\n">>,
     <<"$", "$", "$", "$", "\n">> >>

\* The contents a file of the corpus may have, by name.
FileLines(c) ==
  CASE c = "K1" -> FileK1
    [] c = "K2" -> FileK2
    [] c = "M1" -> FileM1
    [] c = "M2" -> FileM2
    [] c = "S1" -> FileS1
    [] c = "S2" -> FileS2
    [] c = "K3" -> FileK3
    [] c = "M3" -> FileM3
\* The bytes of a file.
RECURSIVE Concat(_)
Concat(lines) ==
  IF lines = <<>> THEN <<>> ELSE lines[1] \o Concat(Tail(lines))
FileBytes(c) == Concat(FileLines(c))
ContentsOf(p) == IF p = PathC THEN {"M1", "M2"} ELSE {"K1", "K2"}

\* The trees of the corpus: each path absent or holding one of its contents.
Trees ==
  UNION { { t \in [D -> {"K1", "K2", "M1", "M2"}] :
              \A p \in D : t[p] \in ContentsOf(p) } : D \in SUBSET Paths }

(***************************************************************************)
(* sdf_index_builder.py: build()                                           *)
(***************************************************************************)
\* _iter_sdf_files(root_dir): the files whose name matches *.sdf.
_iter_sdf_files(t) ==
  { p \in DOMAIN t : EndsWith(p[Len(p)], <<".", "s", "d", "f">>) }

\* Path.__lt__: paths compare as the lists of their components.
RECURSIVE PathLess(_, _)
PathLess(p, q) ==
  IF q = <<>> THEN FALSE
  ELSE IF p = <<>> THEN TRUE
  ELSE IF p[1] # q[1] THEN StrLess(p[1], q[1])
  ELSE PathLess(Tail(p), Tail(q))

\* A variant that leaves the files in the opposite order.
RECURSIVE sorted_descending(_)
sorted_descending(S) ==
  IF S = {} THEN <<>>
  ELSE LET m == CHOOSE a \in S : \A b \in S \ {a} : PathLess(b, a)
       IN <<m>> \o sorted_descending(S \ {m})
\* sorted(S)
RECURSIVE sorted(_)
sorted(S) ==
  IF S = {} THEN <<>>
  ELSE LET m == CHOOSE a \in S : \A b \in S \ {a} : PathLess(a, b)
       IN <<m>> \o sorted(S \ {m})

\* str(fp.relative_to(root_dir)).replace("\\", "/")
RelPath(p) == Join(p, <<"/">>)

KindOf(p) ==
  _determine_kind(p, DEFAULT_COMPOUND_PATTERNS, DEFAULT_CONFORMER_PATTERNS)

(***************************************************************************)
(* sdf_index.py: read_segment                                              *)
(***************************************************************************)
\* A variant that reads from the start of the file.
SeekRead_without_seek(bytes, start, n) ==
  IF n < 0 \/ n > Len(bytes) THEN bytes ELSE SubSeq(bytes, 1, n)
\* f.seek(start); f.read(n): the bytes from start that the file has, at
\* most n of them, and all of them for a negative n.
SeekRead(bytes, start, n) ==
  LET last == IF n < 0 \/ start + n > Len(bytes)
              THEN Len(bytes) ELSE start + n
  IN IF start >= last THEN <<>> ELSE SubSeq(bytes, start + 1, last)

\* read_segment(root_dir, locator) over the tree t under root_dir.
read_segment(st, t, locator) ==
  LET rel == resolve_file_path(st, locator.file_id) IN
  IF rel = None \/ rel = Some(<<>>) THEN Raise("KeyError")
  ELSE IF \A p \in DOMAIN t : RelPath(p) # rel[1]
  THEN Raise("FileNotFoundError")
  ELSE LET fp == CHOOSE p \in DOMAIN t : RelPath(p) = rel[1]
       IN Ok(SeekRead(FileBytes(t[fp]), locator.start,
                      locator.end - locator.start))

(***************************************************************************)
(* sdf_index.py: batch lookups, run by a reader beside the builder         *)
(***************************************************************************)
\* No batch generator is running.
ReaderClosed ==
  [ pc |-> "closed", lock |-> TRUE, which |-> "cid", snap |-> EmptyStore,
    commits |-> 0, pending |-> <<>>, out |-> <<>>, opened |-> EmptyStore ]

\* The keys a batch lookup is given.
BatchKeys(which) ==
  IF which = "cid" THEN << <<7>>, <<8>> >> ELSE << <<"A">>, <<"B">> >>

\* A write transaction committed while the generator holds its read
\* transaction.
NoteCommit(r) ==
  IF r.pc = "open" /\ r.commits < 3
  THEN [r EXCEPT !.commits = @ + 1] ELSE r

\* What txn.get may read.  SDFIndex.__init__ opens the environment with
\* lock = not readonly.  With the lock table the read transaction is a
\* snapshot.  Without it (MDB_NOLOCK) the writer does not see the reader: it
\* takes the pages its transactions freed as free once two later
\* transactions have begun, so from the third commit after the snapshot the
\* reader's pages may hold the writer's data.
TxnViews(r, live) ==
  IF r.lock \/ r.commits < 3 THEN {r.snap} ELSE {r.snap, live}

\* The lookup of one key inside the batch loops.
BatchLookup(st, which, key) ==
  IF which = "cid" THEN LookupVia(st, st.cid_to_compound, CidKey(key[1]))
  ELSE LookupVia(st, st.confid_to_conf, key)

\* No call was made yet.
NoCall == [ op |-> "none" ]

VARIABLES
  tree,      \* the source tree: path -> content name
  store,     \* the committed state of the LMDB environment
  pc,        \* "idle": no build() is running; "indexing": inside the for loop
  queue,     \* the files the running build() has still to index
  totals,    \* total_files, total_records, ... of the running build()
  clock,     \* number of build() calls so far; the value of time.time()
  edits,     \* number of changes made to the tree
  outcome,   \* of the last build(): "none", "running", "ok" or "error"
  base,      \* history: the tree and the store when the last build() began
  done,      \* history: the tree and the store when a build() last returned
  preTxn,    \* history: the store when the last file transaction began
  rd,        \* a batch lookup running in another process
  res,       \* the last call made on a reader's handle, and its outcome
  prior      \* history: the index directory that was built before this one

vars == << tree, store, pc, queue, totals, clock, edits, outcome, base, done,
           preTxn, rd, res, prior >>

ZeroTotals ==
  [ total_files |-> 0, total_records |-> 0, total_compound_records |-> 0,
    total_conformer_records |-> 0 ]

\* The state after SDFIndexBuilder(root_dir, index_dir) on a new index
\* directory, for a tree among T.
InitOver(T) ==
  /\ tree \in T
  /\ store = EmptyStore
  /\ pc = "idle"
  /\ queue = <<>>
  /\ totals = ZeroTotals
  /\ clock = 0
  /\ edits = 0
  /\ outcome = "none"
  /\ base = None
  /\ done = None
  /\ preTxn = EmptyStore
  /\ rd = ReaderClosed
  /\ res = NoCall
  /\ prior = None

Init == InitOver(Trees)

\* A variant whose counters go on from those of the run before.
BuildBegin_keeps_totals ==
  /\ pc = "idle"
  /\ clock < MaxBuilds
  /\ LET meta == [ schema_version |-> SCHEMA_VERSION, built_at |-> clock + 1,
                   pl_page_size |-> PL_PAGE_SIZE, stats |-> None ]
     IN store' = _set_meta(store, meta)
  /\ queue' = sorted(_iter_sdf_files(tree))
  /\ totals' = totals
  /\ clock' = clock + 1
  /\ pc' = "indexing"
  /\ outcome' = "running"
  /\ base' = Some([ tree |-> tree, store |-> store,
                    rerun |-> done = Some([tree |-> tree, store |-> store]) ])
  /\ rd' = NoteCommit(rd)
  /\ UNCHANGED << prior, res, tree, edits, done, preTxn >>

\* A variant that empties the index before it rebuilds it.
BuildBegin_clears_index ==
  /\ pc = "idle"
  /\ clock < MaxBuilds
  /\ LET meta == [ schema_version |-> SCHEMA_VERSION, built_at |-> clock + 1,
                   pl_page_size |-> PL_PAGE_SIZE, stats |-> None ]
     IN store' = _set_meta(EmptyStore, meta)
  /\ queue' = sorted(_iter_sdf_files(tree))
  /\ totals' = ZeroTotals
  /\ clock' = clock + 1
  /\ pc' = "indexing"
  /\ outcome' = "running"
  /\ base' = Some([ tree |-> tree, store |-> store,
                    rerun |-> done = Some([tree |-> tree, store |-> store]) ])
  /\ rd' = NoteCommit(rd)
  /\ UNCHANGED << prior, res, tree, edits, done, preTxn >>

\* build(), up to the for loop: write meta, list and sort the files.
BuildBegin ==
  /\ pc = "idle"
  /\ clock < MaxBuilds
  /\ LET meta == [ schema_version |-> SCHEMA_VERSION, built_at |-> clock + 1,
                   pl_page_size |-> PL_PAGE_SIZE, stats |-> None ]
     IN store' = _set_meta(store, meta)
  /\ queue' = sorted(_iter_sdf_files(tree))
  /\ totals' = ZeroTotals
  /\ clock' = clock + 1
  /\ pc' = "indexing"
  /\ outcome' = "running"
  /\ base' = Some([ tree |-> tree, store |-> store,
                    rerun |-> done = Some([tree |-> tree, store |-> store]) ])
  /\ rd' = NoteCommit(rd)
  /\ UNCHANGED << prior, res, tree, edits, done, preTxn >>

\* A variant that makes the ALIDs from the time of the build as well.
FileTxn_alid_with_build_time(st, p, n) ==
  LET relpath == RelPath(p)
      kind == KindOf(p)
      r == _get_or_create_file_id(st, relpath)
      recs == ParseRecords(FileLines(tree[p]), kind)
  IN IndexRecords(r.txn, r.file_id, relpath \o <<"|">> \o DecStr(clock),
                  kind, SubSeq(recs, 1, n))
\* The transaction of _index_one_file(fp, relpath, kind) after
\* _get_or_create_file_id and the first n records of the file.
FileTxn(st, p, n) ==
  LET relpath == RelPath(p)
      kind == KindOf(p)
      r == _get_or_create_file_id(st, relpath)
      recs == ParseRecords(FileLines(tree[p]), kind)
  IN IndexRecords(r.txn, r.file_id, relpath, kind, SubSeq(recs, 1, n))

\* One pass of the for loop: _index_one_file returns and the totals grow.
IndexFileCommit ==
  /\ pc = "indexing"
  /\ queue # <<>>
  /\ LET p == Head(queue)
         recs == ParseRecords(FileLines(tree[p]), KindOf(p))
         n == Len(recs)
         isc == KindOf(p) = "compound"
     IN /\ store' = CommitTxn(store, FileTxn(store, p, n))
        /\ totals' =
             [ total_files |-> totals.total_files + 1,
               total_records |-> totals.total_records + n,
               total_compound_records |->
                 totals.total_compound_records + (IF isc THEN n ELSE 0),
               total_conformer_records |->
                 totals.total_conformer_records + (IF isc THEN 0 ELSE n) ]
  /\ preTxn' = store
  /\ queue' = Tail(queue)
  /\ rd' = NoteCommit(rd)
  /\ UNCHANGED << prior, res, tree, pc, clock, edits, outcome, base, done >>

\* One pass of the for loop that ends with an exception (the source file
\* cannot be read, the store fails, a value cannot be encoded) after n
\* records of the file were written: the exception leaves the with block,
\* then build().
IndexFileAbort ==
  /\ pc = "indexing"
  /\ queue # <<>>
  /\ LET p == Head(queue)
         recs == ParseRecords(FileLines(tree[p]), KindOf(p))
     IN \E n \in 0..Len(recs) :
          store' = AbortTxn(store, FileTxn(store, p, n))
  /\ preTxn' = store
  /\ queue' = <<>>
  /\ pc' = "idle"
  /\ outcome' = "error"
  /\ UNCHANGED << prior, res, tree, totals, clock, edits, base, done, rd >>

\* build(), after the for loop: add the totals to the stored meta.
BuildEnd ==
  /\ pc = "indexing"
  /\ queue = <<>>
  /\ LET got == get_meta(store)
         meta2 == [ got[1] EXCEPT !.stats = Some(totals) ]
     IN /\ store' = _set_meta(store, meta2)
        /\ done' = Some([ tree |-> tree, store |-> _set_meta(store, meta2) ])
  /\ pc' = "idle"
  /\ outcome' = "ok"
  /\ rd' = NoteCommit(rd)
  /\ UNCHANGED << prior, res, tree, queue, totals, clock, edits, base, preTxn >>

\* Between two builds a file of the tree is written or replaced ...
WriteFile ==
  /\ pc = "idle"
  /\ edits < MaxEdits
  /\ \E p \in Paths : \E c \in ContentsOf(p) :
       /\ Get(tree, p) # Some(c)
       /\ tree' = Put(tree, p, c)
  /\ edits' = edits + 1
  /\ UNCHANGED << prior, res, store, pc, queue, totals, clock, outcome, base, done,
                  preTxn, rd >>

\* ... or removed.
RemoveFile ==
  /\ pc = "idle"
  /\ edits < MaxEdits
  /\ \E p \in DOMAIN tree :
       tree' = [ q \in (DOMAIN tree) \ {p} |-> tree[q] ]
  /\ edits' = edits + 1
  /\ UNCHANGED << prior, res, store, pc, queue, totals, clock, outcome, base, done,
                  preTxn, rd >>

\* The first next() on the generator of batch_get_compounds_by_cid or
\* batch_get_conformers_by_conformer_id: env.begin() opens the read
\* transaction.  The handle was opened with readonly TRUE or FALSE.  One
\* batch is followed.
BatchOpen ==
  /\ rd.pc = "closed"
  /\ rd.out = <<>>
  /\ \E readonly \in BOOLEAN : \E which \in {"cid", "confid"} :
       rd' = [ pc |-> "open", lock |-> ~readonly, which |-> which,
               snap |-> store, commits |-> 0,
               pending |-> BatchKeys(which), out |-> <<>>,
               opened |-> store ]
  /\ UNCHANGED << prior, res, tree, store, pc, queue, totals, clock, edits, outcome,
                  base, done, preTxn >>

\* The generator yields the pair of the next key.
BatchYield ==
  /\ rd.pc = "open"
  /\ rd.pending # <<>>
  /\ \E view \in TxnViews(rd, store) :
       LET key == Head(rd.pending) IN
       rd' = [ rd EXCEPT
                 !.out = Append(@, <<key, BatchLookup(view, rd.which, key)>>),
                 !.pending = Tail(@) ]
  /\ UNCHANGED << prior, res, tree, store, pc, queue, totals, clock, edits, outcome,
                  base, done, preTxn >>

\* The generator is exhausted: the with block closes the read transaction.
BatchClose ==
  /\ rd.pc = "open"
  /\ rd.pending = <<>>
  /\ rd' = [ rd EXCEPT !.pc = "closed" ]
  /\ UNCHANGED << prior, res, tree, store, pc, queue, totals, clock, edits, outcome,
                  base, done, preTxn >>

Next ==
  \/ BuildBegin
  \/ IndexFileCommit
  \/ IndexFileAbort
  \/ BuildEnd
  \/ WriteFile
  \/ RemoveFile

Spec == Init /\ [][Next]_vars

\* A tree of one conformer file and one compound file.
ReadTree == (PathA :> "K2") @@ (PathC :> "M1")

\* A caller of read_segment beside the builder.  The locator is the one of
\* a hit, or names a file_id that the index has not given out.  The call is
\* kept with what it found: the path registered under the file_id, and the
\* file under that path.  One call is followed.
ReadSegment ==
  /\ res = NoCall
  /\ \E k \in DOMAIN store.records : \E known \in BOOLEAN :
       LET hit == from_bytes(store.records[k])
           locator == IF known THEN hit
                      ELSE [hit EXCEPT !.file_id = store.file_id_counter[1] + 1]
           rel == resolve_file_path(store, locator.file_id)
           found == IF rel = None THEN {}
                    ELSE {p \in DOMAIN tree : RelPath(p) = rel[1]}
       IN res' = [ op |-> "read_segment", locator |-> locator,
                   indexed |-> known, edits |-> edits, rel |-> rel,
                   content |-> IF found = {} THEN None
                               ELSE Some(tree[CHOOSE p \in found : TRUE]),
                   out |-> read_segment(store, tree, locator) ]
  /\ UNCHANGED << tree, store, pc, queue, totals, clock, edits, outcome,
                  base, done, preTxn, rd, prior >>

\* Builds and reads of segments over files with the line shapes that the
\* parser accepts, while the tree changes.
SegTrees ==
  { (PathC :> "S1"), (PathA :> "K2") @@ (PathC :> "S2") }
InitSeg == InitOver(SegTrees)
NextSeg ==
  \/ BuildBegin
  \/ IndexFileCommit
  \/ IndexFileAbort
  \/ BuildEnd
  \/ WriteFile
  \/ RemoveFile
  \/ ReadSegment
SpecSeg == InitSeg /\ [][NextSeg]_vars

\* SDFIndexBuilder(root_dir, index_dir2): after a build into an empty index
\* directory returned, a builder is made for the same root_dir and a second,
\* new index directory.  The first directory is kept as it is.
NewIndexDir ==
  /\ pc = "idle"
  /\ outcome = "ok"
  /\ prior = None
  /\ base # None
  /\ base[1].store = EmptyStore
  /\ prior' = Some([ tree |-> base[1].tree, store |-> store ])
  /\ store' = EmptyStore
  /\ outcome' = "none"
  /\ base' = None
  /\ done' = None
  /\ preTxn' = EmptyStore
  /\ UNCHANGED << tree, pc, queue, totals, clock, edits, rd, res >>

\* Builds of one tree into two index directories, one after the other.
NextDirs ==
  \/ BuildBegin
  \/ IndexFileCommit
  \/ IndexFileAbort
  \/ BuildEnd
  \/ NewIndexDir
SpecDirs == Init /\ [][NextDirs]_vars

\* The point lookups and the iteration, called on a handle of the index
\* directory beside the builder.  A call is kept with what the committed
\* state held for it: the schema_version of meta, and the entries of the
\* tables that the call reads.  One call is followed.
QueryCids == {7, 8, 9}
QueryConfIds == { <<"A">>, <<"B">>, <<"Z">> }
QueryAlids(st) ==
  { AlidOfKey(k) : k \in DOMAIN st.records }
    \cup { AlidOfKey(st.cid_to_compound[c]) : c \in DOMAIN st.cid_to_compound }
    \cup { AlidOfKey(st.confid_to_conf[s]) : s \in DOMAIN st.confid_to_conf }
    \cup { Uuid5(ALID_NAMESPACE, <<>>) }
SchemaOf(st) ==
  IF get_meta(st) = None THEN None ELSE Some(get_meta(st)[1].schema_version)
\* The entry of a secondary table for a key: missing, pointing to no
\* record, or pointing to a record.
EntryOf(st, db, k) ==
  IF k \notin DOMAIN db THEN "missing"
  ELSE IF db[k] \notin DOMAIN st.records THEN "dangling"
  ELSE "present"
\* The ALIDs of the pages of a CID that the header counts, in order.
RECURSIVE PostingsOf(_, _, _)
PostingsOf(st, cid_k, page_count) ==
  IF page_count = 0 THEN <<>>
  ELSE PostingsOf(st, cid_k, page_count - 1)
         \o (IF PageKey(cid_k, page_count - 1) \in DOMAIN st.cid2conf_p
             THEN st.cid2conf_p[PageKey(cid_k, page_count - 1)] ELSE <<>>)

GetCompoundByCid ==
  /\ res = NoCall
  /\ \E cid \in QueryCids :
       res' = [ op |-> "get_compound_by_cid", arg |-> cid,
                schema |-> SchemaOf(store),
                entry |-> EntryOf(store, store.cid_to_compound, CidKey(cid)),
                out |-> Ok(get_compound_by_cid(store, cid)) ]
  /\ UNCHANGED << tree, store, pc, queue, totals, clock, edits, outcome,
                  base, done, preTxn, rd, prior >>
GetConformerByConformerId ==
  /\ res = NoCall
  /\ \E conformer_id \in QueryConfIds :
       res' = [ op |-> "get_conformer_by_conformer_id",
                arg |-> conformer_id, schema |-> SchemaOf(store),
                entry |-> EntryOf(store, store.confid_to_conf, conformer_id),
                out |-> Ok(get_conformer_by_conformer_id(store,
                                                         conformer_id)) ]
  /\ UNCHANGED << tree, store, pc, queue, totals, clock, edits, outcome,
                  base, done, preTxn, rd, prior >>
GetByAlid ==
  /\ res = NoCall
  /\ \E alid \in QueryAlids(store) :
     \E is_conformer \in {None, Some(TRUE), Some(FALSE)} :
       res' = [ op |-> "get_by_alid", arg |-> <<alid, is_conformer>>,
                schema |-> SchemaOf(store),
                stored |-> { x \in {"C", "F"} :
                              RecKey(x, alid) \in DOMAIN store.records },
                out |-> Ok(get_by_alid(store, alid, is_conformer)) ]
  /\ UNCHANGED << tree, store, pc, queue, totals, clock, edits, outcome,
                  base, done, preTxn, rd, prior >>
\* list(iter_conformers_by_cid(cid))
IterConformersByCid ==
  /\ res = NoCall
  /\ \E cid \in QueryCids :
       LET cid_k == CidKey(cid)
           postings ==
             IF cid_k \in DOMAIN store.cid2conf_h
             THEN PostingsOf(store, cid_k, store.cid2conf_h[cid_k])
             ELSE <<>>
       IN res' = [ op |-> "iter_conformers_by_cid", arg |-> cid,
                   schema |-> SchemaOf(store),
                   header |-> cid_k \in DOMAIN store.cid2conf_h,
                   postings |-> postings,
                   stored |-> { postings[i] : i \in
                                  { j \in 1..Len(postings) :
                                      RecKey("F", postings[j])
                                        \in DOMAIN store.records } },
                   out |-> Ok(iter_conformers_by_cid(store, cid)) ]
  /\ UNCHANGED << tree, store, pc, queue, totals, clock, edits, outcome,
                  base, done, preTxn, rd, prior >>

\* The index directory was written by another version of the program: its
\* meta holds another schema_version.
OtherVersionIndex ==
  /\ pc = "idle"
  /\ clock = 0
  /\ store = EmptyStore
  /\ store' = _set_meta(EmptyStore,
                        [ schema_version |-> SCHEMA_VERSION + 1,
                          built_at |-> 0, pl_page_size |-> PL_PAGE_SIZE,
                          stats |-> None ])
  /\ UNCHANGED << tree, pc, queue, totals, clock, edits, outcome, base, done,
                  preTxn, rd, res, prior >>
\* The records table loses an entry that the other tables point to: the
\* environment is written by something that is not the builder.
LoseRecord ==
  /\ pc = "idle"
  /\ \E k \in DOMAIN store.records :
       store' = [ store EXCEPT
                    !.records = [ x \in (DOMAIN @) \ {k} |-> @[x] ] ]
  /\ UNCHANGED << tree, pc, queue, totals, clock, edits, outcome, base, done,
                  preTxn, rd, res, prior >>

InitQuery == InitOver({ReadTree})
NextQuery ==
  \/ BuildBegin
  \/ IndexFileCommit
  \/ IndexFileAbort
  \/ BuildEnd
  \/ OtherVersionIndex
  \/ LoseRecord
  \/ GetCompoundByCid
  \/ GetConformerByConformerId
  \/ GetByAlid
  \/ IterConformersByCid
SpecQuery == InitQuery /\ [][NextQuery]_vars

\* ---------------------------------------------------------------------
\* Batch lookups: _chunked and the two batch generators.

\* The longest key sequence and the largest chunk_size of a batch call.
MaxKeys == 3
MaxChunk == 3

\* The loop of _chunked: buf collects items and is yielded when it holds
\* chunk_size of them; what is left in buf at the end is yielded if it is
\* not empty.
RECURSIVE ChunkLoop(_, _, _)
ChunkLoop(iterable, chunk_size, buf) ==
  IF iterable = <<>> THEN (IF buf # <<>> THEN << buf >> ELSE <<>>)
  ELSE LET grown == Append(buf, Head(iterable)) IN
       IF Len(grown) >= chunk_size
       THEN << grown >> \o ChunkLoop(Tail(iterable), chunk_size, <<>>)
       ELSE ChunkLoop(Tail(iterable), chunk_size, grown)

\* A variant of _chunked without the final "if buf: yield buf".
_chunked_without_tail(iterable, chunk_size) ==
  LET chunks == ChunkLoop(iterable, chunk_size, <<>>) IN
  IF chunks # <<>> /\ Len(chunks[Len(chunks)]) < chunk_size
  THEN SubSeq(chunks, 1, Len(chunks) - 1)
  ELSE chunks
_chunked(iterable, chunk_size) == ChunkLoop(iterable, chunk_size, <<>>)

\* The body of the inner loop of a batch generator: the pair yielded for one
\* key.  A CID is encoded as its decimal string, a conformer id as itself.
BatchPair(st, which, key) ==
  LET k == IF which = "cid" THEN CidKey(key) ELSE key
      db == IF which = "cid" THEN st.cid_to_compound ELSE st.confid_to_conf
      rec_key == Get(db, k)
  IN
  IF rec_key = None THEN << key, None >>
  ELSE LET rec_val == Get(st.records, rec_key[1]) IN
       IF rec_val = None THEN << key, None >>
       ELSE << key, Some(IndexHit(AlidOfKey(rec_key[1]), from_bytes(rec_val[1]))) >>

\* "for cid in chunk": the pairs of one chunk, in order.
RECURSIVE ChunkYields(_, _, _)
ChunkYields(st, which, chunk) ==
  IF chunk = <<>> THEN <<>>
  ELSE << BatchPair(st, which, Head(chunk)) >> \o ChunkYields(st, which, Tail(chunk))

\* "for chunk in _chunked(...)": the pairs of all chunks, in order.
RECURSIVE BatchYields(_, _, _)
BatchYields(st, which, chunks) ==
  IF chunks = <<>> THEN <<>>
  ELSE ChunkYields(st, which, Head(chunks)) \o BatchYields(st, which, Tail(chunks))

batch_get_compounds_by_cid(st, cids, chunk_size) ==
  BatchYields(st, "cid", _chunked(cids, chunk_size))
batch_get_conformers_by_conformer_id(st, conformer_ids, chunk_size) ==
  BatchYields(st, "confid", _chunked(conformer_ids, chunk_size))

\* The keys of a batch call: one that a build of the tree indexes and one
\* that no build indexes.
BatchCids == {7, 9}
BatchConfIds == { <<"A">>, <<"Z">> }
\* The key sequences of a batch call: any order, with repetitions.
KeySeqs(S) == UNION { [1..n -> S] : n \in 0..MaxKeys }

\* A batch generator is run to its end while no build is under way.  One call
\* is followed, and nothing writes the store after it.
BatchGetCompoundsByCid ==
  /\ res = NoCall
  /\ pc = "idle"
  /\ \E cids \in KeySeqs(BatchCids) : \E chunk_size \in 1..MaxChunk :
       res' = [ op |-> "batch_get_compounds_by_cid", keys |-> cids,
                chunk_size |-> chunk_size,
                out |-> batch_get_compounds_by_cid(store, cids, chunk_size) ]
  /\ UNCHANGED << tree, store, pc, queue, totals, clock, edits, outcome,
                  base, done, preTxn, rd, prior >>
BatchGetConformersByConformerId ==
  /\ res = NoCall
  /\ pc = "idle"
  /\ \E conformer_ids \in KeySeqs(BatchConfIds) : \E chunk_size \in 1..MaxChunk :
       res' = [ op |-> "batch_get_conformers_by_conformer_id",
                keys |-> conformer_ids, chunk_size |-> chunk_size,
                out |-> batch_get_conformers_by_conformer_id(store, conformer_ids,
                                                             chunk_size) ]
  /\ UNCHANGED << tree, store, pc, queue, totals, clock, edits, outcome,
                  base, done, preTxn, rd, prior >>

InitBatch == InitOver({ReadTree})
NextBatch ==
  \/ res = NoCall /\ BuildBegin
  \/ res = NoCall /\ IndexFileCommit
  \/ res = NoCall /\ IndexFileAbort
  \/ res = NoCall /\ BuildEnd
  \/ res = NoCall /\ LoseRecord
  \/ BatchGetCompoundsByCid
  \/ BatchGetConformersByConformerId
SpecBatch == InitBatch /\ [][NextBatch]_vars

\* ---------------------------------------------------------------------
\* download_worker: one file fetched by wget, with retries.

MAX_RETRIES == 2
RETRY_DELAY == 5

\* The inputs of a call: the file, the rate limit and the tries flag.
BaseUrl == <<"u", "/">>
OutputDir == <<"o">>
Hrefs == { <<"a">>, <<"b">> }
LimitRates == { None, Some(<<"1", "m">>) }
TriesValues == {1, 3}
\* The messages of the exceptions, other than CalledProcessError, that
\* subprocess.run raises (wget missing, directory not accessible).
OtherExceptions == { "FileNotFoundError", "PermissionError" }

\* The command line, in the order in which the list is written.
WgetCmd(full_url, output_dir, limit_rate, tries) ==
  << "wget", "-q", "-c", "-N", "-P", << "--tries=", tries >>, output_dir, full_url >>
    \o (IF limit_rate # None THEN << << "--limit-rate=", limit_rate[1] >> >> ELSE <<>>)

\* A variant that counts the retries alone as attempts.
total_attempts_without_first == MAX_RETRIES
\* Total attempts: the first one and MAX_RETRIES retries.
total_attempts == 1 + MAX_RETRIES

\* The worker after "attempts = 0": about to run the command.  events records
\* what the worker did, in order: "ok", "cpe" (CalledProcessError) or "exc"
\* for a run of the command, "sleep" for a time.sleep; slept is the time
\* spent sleeping.
WorkerStarted(href, limit_rate, tries) ==
  [ op |-> "download_worker", at |-> "run", href |-> href,
    cmd |-> WgetCmd(BaseUrl \o href, OutputDir, limit_rate, tries),
    attempts |-> 0, events |-> <<>>, slept |-> 0, ret |-> None ]

\* The call: os.makedirs succeeds and the loop is entered.
CallDownloadWorker ==
  /\ res = NoCall
  /\ \E href \in Hrefs : \E limit_rate \in LimitRates : \E tries \in TriesValues :
       res' = WorkerStarted(href, limit_rate, tries)
  /\ UNCHANGED << tree, store, pc, queue, totals, clock, edits, outcome,
                  base, done, preTxn, rd, prior >>
\* os.makedirs raises: it is outside the try, the exception leaves the worker.
MakedirsRaises ==
  /\ res = NoCall
  /\ \E href \in Hrefs : \E e \in OtherExceptions :
       res' = [ op |-> "download_worker", at |-> "raised", href |-> href,
                cmd |-> <<>>, attempts |-> 0, events |-> <<>>, slept |-> 0,
                ret |-> Some(Raise(e)) ]
  /\ UNCHANGED << tree, store, pc, queue, totals, clock, edits, outcome,
                  base, done, preTxn, rd, prior >>
\* The loop condition holds and subprocess.run returns: wget exited with 0.
RunSucceeds ==
  /\ res.op = "download_worker"
  /\ res.at = "run"
  /\ res.attempts < total_attempts
  /\ res' = [ res EXCEPT
                !.at = "returned",
                !.events = Append(@, "ok"),
                !.ret = Some(Ok(<< TRUE, "Success", BaseUrl \o res.href, res.href >>)) ]
  /\ UNCHANGED << tree, store, pc, queue, totals, clock, edits, outcome,
                  base, done, preTxn, rd, prior >>
\* subprocess.run raises CalledProcessError: wget exited with another status.
RunCalledProcessError ==
  /\ res.op = "download_worker"
  /\ res.at = "run"
  /\ res.attempts < total_attempts
  /\ LET attempts == res.attempts + 1 IN
     res' = IF attempts < total_attempts
            THEN [ res EXCEPT !.attempts = attempts,
                              !.events = Append(@, "cpe"),
                              !.at = "sleep" ]
            ELSE [ res EXCEPT !.attempts = attempts,
                              !.events = Append(@, "cpe"),
                              !.at = "returned",
                              !.ret = Some(Ok(<< FALSE, "Failed after retries",
                                                 BaseUrl \o res.href, res.href >>)) ]
  /\ UNCHANGED << tree, store, pc, queue, totals, clock, edits, outcome,
                  base, done, preTxn, rd, prior >>
\* subprocess.run raises another exception.
RunRaises ==
  /\ res.op = "download_worker"
  /\ res.at = "run"
  /\ res.attempts < total_attempts
  /\ \E e \in OtherExceptions :
       res' = [ res EXCEPT
                  !.at = "returned",
                  !.events = Append(@, "exc"),
                  !.ret = Some(Ok(<< FALSE, e, BaseUrl \o res.href, res.href >>)) ]
  /\ UNCHANGED << tree, store, pc, queue, totals, clock, edits, outcome,
                  base, done, preTxn, rd, prior >>
\* time.sleep(RETRY_DELAY) returns and the loop goes round.
SleepEnds ==
  /\ res.op = "download_worker"
  /\ res.at = "sleep"
  /\ res' = [ res EXCEPT !.at = "run",
                         !.events = Append(@, "sleep"),
                         !.slept = @ + RETRY_DELAY ]
  /\ UNCHANGED << tree, store, pc, queue, totals, clock, edits, outcome,
                  base, done, preTxn, rd, prior >>

\* A run of the command ends, one way or another.
RunEnds == RunSucceeds \/ RunCalledProcessError \/ RunRaises

InitDownload == InitOver({ReadTree})
NextDownload ==
  \/ CallDownloadWorker
  \/ MakedirsRaises
  \/ RunSucceeds
  \/ RunCalledProcessError
  \/ RunRaises
  \/ SleepEnds
\* Every run of the command ends and every sleep ends.
SpecDownload ==
  InitDownload /\ [][NextDownload]_vars /\ WF_vars(RunEnds) /\ WF_vars(SleepEnds)

\* Builds over files whose records share identifiers, and whose content is
\* replaced between builds by records with the same place and conformer id
\* and another CID.
EditContents(p) == IF p = PathC THEN {"M1", "M3"} ELSE {"K2", "K3"}
EditTrees ==
  { (PathB :> "K2"), (PathB :> "K3") @@ (PathC :> "M3"),
    (PathA :> "K3") @@ (PathB :> "K2") @@ (PathC :> "M1") }
ReplaceFile ==
  /\ pc = "idle"
  /\ edits < MaxEdits
  /\ \E p \in DOMAIN tree : \E c \in EditContents(p) :
       /\ tree[p] # c
       /\ tree' = [tree EXCEPT ![p] = c]
  /\ edits' = edits + 1
  /\ UNCHANGED << store, pc, queue, totals, clock, outcome, base, done,
                  preTxn, rd, res, prior >>
InitEdit == InitOver(EditTrees)
NextEdit ==
  \/ BuildBegin
  \/ IndexFileCommit
  \/ IndexFileAbort
  \/ BuildEnd
  \/ ReplaceFile
  \/ RemoveFile
SpecEdit == InitEdit /\ [][NextEdit]_vars

\* _index_one_file on its own, line by line.  The file is not fixed in
\* advance: every readline() returns one of the line shapes below, until
\* the end of the file.  The call is kept with the lines read so far, the
\* parser's variables and the records emitted; at the end of the file it is
\* kept with the transaction that the with block commits into a new index.
ParserLines ==
  { <<"7", "\n">>, <<"8", "\n">>, <<"B", "\n">>, <<"\n">>,
    <<">", " ", "<", "C", "I", "D", ">", "\n">>,
    <<">", " ", "<", "C", "O", "N", "F", "I", "D", ">", "\n">>,
    <<">", " ", "<", "P", "A", "R", "E", "N", "T", "_", "C", "I", "D", ">",
      "\n">>,
    <<"$", "$", "$", "$", "\n">> }
\* The path of the file, by kind.
ParsedPath(kind) == IF kind = "compound" THEN PathC ELSE PathB
\* The transaction of _index_one_file for a file of the given records.
IndexOneFile(st, p, recs) ==
  LET r == _get_or_create_file_id(st, RelPath(p))
  IN IndexRecords(r.txn, r.file_id, RelPath(p), KindOf(p), recs)

OpenFile ==
  /\ res = NoCall
  /\ \E kind \in {"compound", "conformer"} :
       res' = [ op |-> "_index_one_file", kind |-> kind, lines |-> <<>>,
                ps |-> ParserInit, emitted |-> <<>>, eof |-> FALSE,
                txn |-> EmptyStore ]
  /\ UNCHANGED << tree, store, pc, queue, totals, clock, edits, outcome,
                  base, done, preTxn, rd, prior >>
\* The files are taken up to the exchange of the two digit lines, which
\* the parser treats alike: the line 8 is read only in a file that holds a
\* line 7 before it.
NextLines(lines) ==
  IF \E i \in 1..Len(lines) : lines[i] = <<"7", "\n">> THEN ParserLines
  ELSE ParserLines \ { <<"8", "\n">> }
\* One pass of the read loop.
ReadLine ==
  /\ res.op = "_index_one_file"
  /\ ~res.eof
  /\ Len(res.lines) < MaxLines
  /\ \E line \in NextLines(res.lines) :
       LET r == ParserStep(res.ps, line, res.kind) IN
       res' = [ res EXCEPT !.lines = Append(@, line), !.ps = r.ps,
                           !.emitted = @ \o r.emit ]
  /\ UNCHANGED << tree, store, pc, queue, totals, clock, edits, outcome,
                  base, done, preTxn, rd, prior >>
\* A variant in which EOF emits the record that was being read.
EndOfFile_flushes_partial ==
  /\ res.op = "_index_one_file"
  /\ ~res.eof
  /\ LET partial ==
           IF res.ps.title_line = None THEN <<>>
           ELSE << [ rec_start |-> res.ps.rec_start, rec_end |-> res.ps.pos,
                     rec_no |-> res.ps.rec_no, cid_val |-> res.ps.cid_val,
                     conf_id_val |-> res.ps.conf_id_val,
                     parent_cid_val |-> res.ps.parent_cid_val ] >>
     IN res' = [ res EXCEPT
                    !.eof = TRUE,
                    !.txn = CommitTxn(EmptyStore,
                                      IndexOneFile(EmptyStore,
                                                   ParsedPath(res.kind),
                                                   res.emitted \o partial)) ]
  /\ UNCHANGED << tree, store, pc, queue, totals, clock, edits, outcome,
                  base, done, preTxn, rd, prior >>
\* readline() returns b"": the loop and the with blocks are left.
EndOfFile ==
  /\ res.op = "_index_one_file"
  /\ ~res.eof
  /\ res' = [ res EXCEPT
                 !.eof = TRUE,
                 !.txn = CommitTxn(EmptyStore,
                                   IndexOneFile(EmptyStore,
                                                ParsedPath(res.kind),
                                                res.emitted)) ]
  /\ UNCHANGED << tree, store, pc, queue, totals, clock, edits, outcome,
                  base, done, preTxn, rd, prior >>
InitParse == InitOver({EmptyDb})
NextParse ==
  \/ OpenFile
  \/ ReadLine
  \/ EndOfFile
SpecParse == InitParse /\ [][NextParse]_vars

\* The classification of a file on its own: build() calls _determine_kind
\* with the default patterns for each file of the walk.  A path is its
\* directory components and a base name made of up to MaxNameParts parts.
NameParts ==
  { <<"c", "o", "n", "f">>, <<"C", "O", "N">>, <<"F">>,
    <<"c", "o", "m", "p", "o", "u", "n", "d">>, <<"c", "m", "p", "d">>,
    <<"c", "o">>, <<"x">> }
RECURSIVE NamesOf(_)
NamesOf(n) ==
  IF n = 0 THEN {<<>>}
  ELSE NamesOf(n - 1) \cup { s \o q : s \in NamesOf(n - 1), q \in NameParts }
KindDirs == { <<>>, << <<"c", "o", "n", "f">> >>, << <<"x">> >> }
KindPaths ==
  { d \o << s \o <<".", "s", "d", "f">> >> :
      d \in KindDirs, s \in NamesOf(MaxNameParts) }

DetermineKind ==
  /\ res = NoCall
  /\ \E p \in KindPaths :
       res' = [ op |-> "_determine_kind", path |-> p, kind |-> KindOf(p) ]
  /\ UNCHANGED << tree, store, pc, queue, totals, clock, edits, outcome,
                  base, done, preTxn, rd, prior >>
InitKind == InitOver({EmptyDb})
NextKind == DetermineKind
SpecKind == InitKind /\ [][NextKind]_vars

\* The posting lists on their own: _pl_append is called up to MaxAppends
\* times inside one write transaction, for a CID and an ALID of a conformer
\* record; store is the transaction's view.
AppendCids == {7, 8}
AppendAlids ==
  { _make_alid("conformer", RelPath(PathB), n, <<"A">>) : n \in 0..1 }
AppendsDone(st) ==
  LET Count(k) == IF k \in DOMAIN st.pl_appended THEN st.pl_appended[k] ELSE 0
  IN Count(CidKey(7)) + Count(CidKey(8))
PlAppend ==
  /\ AppendsDone(store) < MaxAppends
  /\ \E c \in AppendCids : \E a \in AppendAlids :
       /\ store' = _pl_append(store, c, a)
       /\ res' = [ op |-> "_pl_append", cid |-> c, uuid16 |-> a ]
  /\ UNCHANGED << tree, pc, queue, totals, clock, edits, outcome,
                  base, done, preTxn, rd, prior >>
InitAppend == InitOver({EmptyDb})
NextAppend == PlAppend
SpecAppend == InitAppend /\ [][NextAppend]_vars

\* The ALIDs of two records of one run.  A file name may hold any character
\* but "/", a conformer id any character of a line; the records are given
\* as the parser emits them.
PrimaryIdOf(kind, rec) ==
  IF kind = "compound"
  THEN (IF rec.cid_val # None THEN DecStr(rec.cid_val[1]) ELSE <<>>)
  ELSE (IF rec.conf_id_val # None THEN rec.conf_id_val[1] ELSE <<>>)
AlidPaths ==
  { << <<"c", "o", "n", "f", ".", "s", "d", "f">> >>,
    << <<"c", "o", "n", "f", ".", "s", "d", "f", "|", "0", "|",
         "c", ".", "s", "d", "f">> >>,
    PathC }
AlidConfIds ==
  { None, Some(<<"A">>),
    Some(<<"c", ".", "s", "d", "f", "|", "0", "|", "A">>) }
AlidRecords ==
  { [ rec_start |-> 10 * n, rec_end |-> 10 * n + 5, rec_no |-> n,
      cid_val |-> c, conf_id_val |-> f, parent_cid_val |-> None ] :
      n \in 0..MaxRecNo, c \in {None, Some(7)}, f \in AlidConfIds }
IndexTwoRecords ==
  /\ res = NoCall
  /\ \E p \in AlidPaths, q \in AlidPaths :
       \E r \in AlidRecords, s \in AlidRecords :
         LET f1 == _get_or_create_file_id(EmptyStore, RelPath(p))
             t1 == IndexRecord(f1.txn, f1.file_id, RelPath(p), KindOf(p), r)
             f2 == _get_or_create_file_id(t1, RelPath(q))
             t2 == IndexRecord(f2.txn, f2.file_id, RelPath(q), KindOf(q), s)
         IN res' = [ op |-> "_make_alid",
                     a |-> [ path |-> p, rec |-> r ],
                     b |-> [ path |-> q, rec |-> s ],
                     alid_a |-> _make_alid(KindOf(p), RelPath(p), r.rec_no,
                                           PrimaryIdOf(KindOf(p), r)),
                     alid_b |-> _make_alid(KindOf(q), RelPath(q), s.rec_no,
                                           PrimaryIdOf(KindOf(q), s)),
                     txn |-> t2 ]
  /\ UNCHANGED << tree, store, pc, queue, totals, clock, edits, outcome,
                  base, done, preTxn, rd, prior >>
InitAlid == InitOver({EmptyDb})
NextAlid == IndexTwoRecords
SpecAlid == InitAlid /\ [][NextAlid]_vars

\* The locator codec on its own.  The fields are taken at the ends of the
\* ranges of the format; I64_LIMIT is 2^63 in the program.
U32_MAX == FieldMax("I")
U64_MAX == FieldMax("Q")
I64_LIMIT == FieldMax("q") + 1
CodecLocators ==
  [ file_id : {0, 1, U32_MAX, U32_MAX + 1},
    start : {-1, 0, 1, I64_LIMIT},
    end : {0, 1, 2, I64_LIMIT - 1, I64_LIMIT, I64_LIMIT + 1, U64_MAX,
           U64_MAX + 1},
    is_conformer : BOOLEAN,
    cid : {None, Some(-2), Some(-1), Some(0), Some(7), Some(I64_LIMIT - 1),
           Some(I64_LIMIT)} ]
\* Buffers of the size of the format, cut short by a field, and too long.
CodecBuffers ==
  LET whole == {0, 1, U32_MAX} \X {0, 1} \X {0, 2, U64_MAX} \X {0, 1, 2, 3}
                 \X {0 - I64_LIMIT, -2, -1, 0, 7, I64_LIMIT - 1} \X {0, 1}
  IN whole \cup {SubSeq(b, 1, 5) : b \in whole}
           \cup {Append(b, 0) : b \in whole} \cup {<<>>}

\* L.to_bytes().  One call, and the decoding of its result, is followed.
ToBytesCall ==
  /\ res = NoCall
  /\ \E locator \in CodecLocators :
       res' = [ op |-> "to_bytes", locator |-> locator,
                out |-> RecordLocator_to_bytes(locator) ]
  /\ UNCHANGED << tree, store, pc, queue, totals, clock, edits, outcome,
                  base, done, preTxn, rd, prior >>
\* RecordLocator.from_bytes(b), for the buffer that to_bytes just returned
\* (of is then its locator) or for another one.
FromBytesCall ==
  /\ \/ /\ res.op = "to_bytes"
        /\ res.out.ok
        /\ res' = [ op |-> "from_bytes", buffer |-> res.out.value[1],
                    of |-> Some(res.locator),
                    out |-> RecordLocator_from_bytes(res.out.value[1]) ]
     \/ /\ res = NoCall
        /\ \E b \in CodecBuffers :
             res' = [ op |-> "from_bytes", buffer |-> b, of |-> None,
                      out |-> RecordLocator_from_bytes(b) ]
  /\ UNCHANGED << tree, store, pc, queue, totals, clock, edits, outcome,
                  base, done, preTxn, rd, prior >>
InitCodec == InitOver({EmptyDb})
NextCodec ==
  \/ ToBytesCall
  \/ FromBytesCall
SpecCodec == InitCodec /\ [][NextCodec]_vars

\* A builder and a reader of the same index directory, over a corpus of two
\* files that does not change.
InitRead == Init /\ tree = ReadTree
NextRead ==
  \/ BuildBegin
  \/ IndexFileCommit
  \/ IndexFileAbort
  \/ BuildEnd
  \/ BatchOpen
  \/ BatchYield
  \/ BatchClose
SpecRead == InitRead /\ [][NextRead]_vars
(***************************************************************************)
(* Properties                                                              *)
(***************************************************************************)
\* The CIDs and the record keys that occur in the corpus.
CorpusCids == {7, 8, 9}
LocatorOf(st, k) == from_bytes(st.records[k])
ConformerRecordsOf(st, c) ==
  { k \in DOMAIN st.records :
      LocatorOf(st, k).is_conformer /\ LocatorOf(st, k).cid = Some(c) }
\* The ALIDs of pages 0 .. page_count - 1 of a CID key, concatenated.
RECURSIVE PagesConcat(_, _, _)
PagesConcat(st, cid_k, page_count) ==
  IF page_count = 0 THEN <<>>
  ELSE PagesConcat(st, cid_k, page_count - 1)
         \o (IF PageKey(cid_k, page_count - 1) \in DOMAIN st.cid2conf_p
             THEN st.cid2conf_p[PageKey(cid_k, page_count - 1)] ELSE <<>>)
PageCount(st, cid_k) ==
  IF cid_k \in DOMAIN st.cid2conf_h THEN st.cid2conf_h[cid_k] ELSE 0
CeilDiv(n, d) == (n + d - 1) \div d

\* C1: whenever no build is running, iter_conformers_by_cid(c) yields every
\* conformer record of the index whose effective CID is c exactly once, and
\* nothing else.
C1_IterYieldsEachConformerOnce ==
  pc = "idle" =>
    \A c \in CorpusCids :
      LET hits == iter_conformers_by_cid(store, c) IN
      /\ \A i, j \in 1..Len(hits) : i # j => hits[i].alid # hits[j].alid
      /\ { RecKey("F", hits[i].alid) : i \in 1..Len(hits) }
           = ConformerRecordsOf(store, c)

\* C2: for every CID with N appended ALIDs the header's page count is
\* ceil(N / PL_PAGE_SIZE) and pages 0 .. page_count - 1 concatenated are
\* N * 16 bytes.
C2_PostingListPaging ==
  \A cid_k \in (DOMAIN store.pl_appended) \cup (DOMAIN store.cid2conf_h) :
    LET N == IF cid_k \in DOMAIN store.pl_appended
             THEN store.pl_appended[cid_k] ELSE 0
        page_count == PageCount(store, cid_k)
    IN /\ page_count = CeilDiv(N, PL_PAGE_SIZE)
       /\ BlobLen(PagesConcat(store, cid_k, page_count)) = N * UUID_BYTES
\* A list that filled its first page and went on to a second one.
C2_Witness ==
  \E cid_k \in DOMAIN store.cid2conf_h :
    /\ store.cid2conf_h[cid_k] >= 2
    /\ Len(store.cid2conf_p[PageKey(cid_k, 0)]) = PL_PAGE_SIZE

\* The tables of the store, with built_at left out of the meta.
Tables(st) ==
  [ meta |-> IF st.meta_json = None THEN None
             ELSE Some([ st.meta_json[1] EXCEPT !.built_at = 0 ]),
    file_id_counter |-> st.file_id_counter,
    files |-> st.files, files_rev |-> st.files_rev, records |-> st.records,
    cid_to_compound |-> st.cid_to_compound,
    confid_to_conf |-> st.confid_to_conf,
    cid2conf_h |-> st.cid2conf_h, cid2conf_p |-> st.cid2conf_p ]

\* C3: a build() that ran on the index a completed build() left, over the
\* same tree, leaves every table as it found it (built_at aside).
C3_RebuildIdempotent ==
  (outcome = "ok" /\ base # None /\ base[1].rerun) =>
     Tables(store) = Tables(base[1].store)

\* C4: every value of cid_to_compound and of confid_to_conf, and every ALID
\* of a posting-list page under the prefix F, is a key of records.
C4_NoDanglingSecondary ==
  /\ \A k \in DOMAIN store.cid_to_compound :
       store.cid_to_compound[k] \in DOMAIN store.records
  /\ \A k \in DOMAIN store.confid_to_conf :
       store.confid_to_conf[k] \in DOMAIN store.records
  /\ \A pk \in DOMAIN store.cid2conf_p :
       \A i \in 1..Len(store.cid2conf_p[pk]) :
         RecKey("F", store.cid2conf_p[pk][i]) \in DOMAIN store.records
\* All three kinds of entry exist, after a file transaction was aborted.
C4_Witness ==
  /\ outcome = "error"
  /\ store.cid_to_compound # EmptyDb
  /\ store.confid_to_conf # EmptyDb
  /\ store.cid2conf_p # EmptyDb

\* C5: when a file's indexing stopped with an error, the store is the one
\* the file's transaction found (what earlier files committed, and nothing
\* of this file), and build() was left before it wrote the totals.
C5_AbortedFileLeavesNoTrace ==
  outcome = "error" =>
    /\ store = preTxn
    /\ pc = "idle"
    /\ store.meta_json # None /\ store.meta_json[1].stats = None
\* A build that committed a file and failed in a later one.
C5_Witness ==
  /\ outcome = "error"
  /\ base # None
  /\ store.records # base[1].store.records

\* C6: every pair a batch lookup has yielded holds the result of the point
\* lookup on the store as it was when the read transaction was opened.
C6_BatchSnapshotConsistent ==
  \A i \in 1..Len(rd.out) :
    rd.out[i][2] = BatchLookup(rd.opened, rd.which, rd.out[i][1])

\* The file and the start offset of a hit.
PathOfHit(st, hit) ==
  CHOOSE p \in Paths : Some(RelPath(p)) = resolve_file_path(st, hit.locator.file_id)
\* The conformer records of CID c in the tree t, as (path, start) pairs.
TreeConformers(t, c) ==
  UNION { LET recs == ParseRecords(FileLines(t[p]), "conformer") IN
          { <<p, recs[i].rec_start>> :
              i \in { j \in 1..Len(recs) :
                        (IF recs[j].cid_val # None THEN recs[j].cid_val
                         ELSE recs[j].parent_cid_val) = Some(c) } } :
          p \in { q \in _iter_sdf_files(t) : KindOf(q) = "conformer" } }
\* After a completed build on an empty index: the hits of CID c are the
\* conformers of c in the tree, each file's in byte order, and the files in
\* the order FileBefore.
RelPathLess(p, q) == StrLess(RelPath(p), RelPath(q))
FileBefore(byString, p, q) ==
  IF byString THEN RelPathLess(p, q) ELSE PathLess(p, q)
IterOrdered(byString) ==
  (outcome = "ok" /\ base # None /\ base[1].store = EmptyStore) =>
    \A c \in CorpusCids :
      LET hits == iter_conformers_by_cid(store, c)
          at(i) == <<PathOfHit(store, hits[i]), hits[i].locator.start>>
      IN /\ { at(i) : i \in 1..Len(hits) } = TreeConformers(base[1].tree, c)
         /\ \A i, j \in 1..Len(hits) :
              i < j => \/ at(i)[1] = at(j)[1] /\ at(i)[2] < at(j)[2]
                       \/ at(i)[1] # at(j)[1]
                            /\ FileBefore(byString, at(i)[1], at(j)[1])

\* C7 as stated: ... and the files in the lexicographic order of their
\* normalized relative paths.
C7_OrderByRelativePathString == IterOrdered(TRUE)
\* C7, amended: ... and the files in the order of their paths compared
\* component by component.
C7_OrderByPathComponents == IterOrdered(FALSE)
\* Two conformer files of one CID were indexed into an empty index, one of
\* them with two records, and the list spans two pages.
C7_Witness ==
  /\ outcome = "ok" /\ base # None /\ base[1].store = EmptyStore
  /\ \E c \in CorpusCids :
       LET hits == iter_conformers_by_cid(store, c) IN
       /\ \E i, j \in 1..Len(hits) :
            hits[i].locator.file_id # hits[j].locator.file_id
       /\ \E i, j \in 1..Len(hits) :
            i < j /\ hits[i].locator.file_id = hits[j].locator.file_id
       /\ PageCount(store, CidKey(c)) >= 2

\* C8: files and files_rev are inverse to each other.
C8_FileIdBijection ==
  /\ \A id \in DOMAIN store.files :
       /\ store.files[id] \in DOMAIN store.files_rev
       /\ store.files_rev[store.files[id]] = id
  /\ \A rel \in DOMAIN store.files_rev :
       /\ store.files_rev[rel] \in DOMAIN store.files
       /\ store.files[store.files_rev[rel]] = rel
\* Two files are registered, a file transaction was aborted, and the build
\* running now is not the first.
C8_Witness ==
  /\ Cardinality(DOMAIN store.files) >= 2
  /\ outcome = "error"
  /\ clock >= 2

\* The file_ids are 1 .. file_id_counter.
FileIdsDense(st) ==
  DOMAIN st.files =
    1..(IF st.file_id_counter = None THEN 0 ELSE st.file_id_counter[1])
\* C9: the committed file_ids are 1 .. file_id_counter at all times, and no
\* step changes or removes the file_id of a path.
C9_FileIdsMonotonic ==
  /\ FileIdsDense(store)
  /\ [][ /\ FileIdsDense(store')
         /\ \A rel \in DOMAIN store.files_rev :
              /\ rel \in DOMAIN store'.files_rev
              /\ store'.files_rev[rel] = store.files_rev[rel]
         /\ \A rel \in (DOMAIN store'.files_rev) \ (DOMAIN store.files_rev) :
              store'.files_rev[rel] \notin DOMAIN store.files ]_vars
\* A later build registered a file that the build before it did not know,
\* beside a file that it knew.
C9_Witness ==
  /\ clock >= 2
  /\ done # None
  /\ \E rel \in DOMAIN store.files_rev : rel \notin DOMAIN done[1].store.files_rev
  /\ \E rel \in DOMAIN store.files_rev : rel \in DOMAIN done[1].store.files_rev

\* C10: two distinct entries of records with the same file_id have disjoint
\* ranges [start, end).
C10_RangesDisjoint ==
  \A k1, k2 \in DOMAIN store.records :
    LET a == LocatorOf(store, k1)
        b == LocatorOf(store, k2)
    IN (k1 # k2 /\ a.file_id = b.file_id) =>
         (a.end <= b.start \/ b.end <= a.start)

\* The lines of a byte string, as readline() cuts them.
RECURSIVE SplitLines(_)
SplitLines(bytes) ==
  IF bytes = <<>> THEN <<>>
  ELSE IF \E i \in 1..Len(bytes) : bytes[i] = "\n"
  THEN LET i == CHOOSE k \in 1..Len(bytes) :
                  bytes[k] = "\n" /\ \A m \in 1..(k - 1) : bytes[m] # "\n"
       IN <<SubSeq(bytes, 1, i)>> \o SplitLines(SubSeq(bytes, i + 1, Len(bytes)))
  ELSE <<bytes>>
\* The offsets of a file right after a terminator line.
RECURSIVE AfterTerminators(_, _)
AfterTerminators(lines, pos) ==
  IF lines = <<>> THEN {}
  ELSE (IF Strip(lines[1]) = <<"$", "$", "$", "$">>
        THEN {pos + Len(lines[1])} ELSE {})
       \cup AfterTerminators(Tail(lines), pos + Len(lines[1]))
RecordBoundaries(c) == {0} \cup AfterTerminators(SplitLines(FileBytes(c)), 0)
\* A read of the segment of an indexed record whose file did not change.
SegmentOfRecordRead ==
  res.op = "read_segment" /\ res.indexed /\ res.edits = 0

\* C11: the segment of every indexed record, read from the unchanged source
\* file, ends with "$$$$\n" or "$$$$\r\n", begins at a record boundary, and
\* its first byte is not a newline.
C11_SegmentEndsWithTerminatorNewline ==
  SegmentOfRecordRead =>
    /\ res.out.ok
    /\ LET bytes == res.out.value[1] IN
       /\ \/ EndsWith(bytes, <<"$", "$", "$", "$", "\n">>)
          \/ EndsWith(bytes, <<"$", "$", "$", "$", "\r", "\n">>)
       /\ bytes[1] # "\n"
       /\ res.locator.start \in RecordBoundaries(res.content[1])

\* C11 (amended): the segment of every indexed record, read from the
\* unchanged source file, begins at a record boundary and is made of whole
\* lines of which the last, and no other, is a terminator line (its stripped
\* content is "$$$$").
C11_SegmentIsOneRecord ==
  SegmentOfRecordRead =>
    /\ res.out.ok
    /\ LET lines == SplitLines(res.out.value[1]) IN
       /\ lines # <<>>
       /\ \A i \in 1..Len(lines) :
            (Strip(lines[i]) = <<"$", "$", "$", "$">>) <=> (i = Len(lines))
       /\ res.locator.start \in RecordBoundaries(res.content[1])
       /\ res.locator.end \in RecordBoundaries(res.content[1]) \ {0}
C11_Witness ==
  /\ SegmentOfRecordRead
  /\ res.locator.start > 0
  /\ res.out.ok
  /\ ~EndsWith(res.out.value[1], <<"\n">>)

\* C20: read_segment returns exactly end - start bytes from start of the
\* file registered under file_id, and raises when the file_id is unknown,
\* the file is missing or the file is shorter than end.
C20_ReadSegmentExactOrError ==
  res.op = "read_segment" =>
    IF res.rel = None \/ res.content = None THEN ~res.out.ok
    ELSE LET bytes == FileBytes(res.content[1]) IN
         IF Len(bytes) < res.locator.end THEN ~res.out.ok
         ELSE res.out = Ok(SubSeq(bytes, res.locator.start + 1,
                                  res.locator.end))

\* A locator that the builder can produce: the fields fit the format,
\* file_id >= 1, 0 <= start < end, cid absent or in 0..2^63 - 1.
Producible(L) ==
  /\ L.file_id >= 1 /\ L.file_id <= U32_MAX
  /\ 0 <= L.start /\ L.start < L.end /\ L.end <= U64_MAX
  /\ L.cid = None \/ (L.cid[1] >= 0 /\ L.cid[1] < I64_LIMIT)

\* C12: for every locator L that the builder can produce, to_bytes(L) is 32
\* bytes with the reserved field 0, and from_bytes(to_bytes(L)) = L.
C12_CodecRoundTrip ==
  /\ (res.op = "to_bytes" /\ Producible(res.locator)) =>
        /\ res.out.ok
        /\ BufferLen(res.out.value[1]) = 32
        /\ res.out.value[1][6] = 0
  /\ (res.op = "from_bytes" /\ res.of # None) =>
        (Producible(res.of[1]) => res.out = Ok(res.of[1]))
C12_Witness ==
  /\ res.op = "from_bytes"
  /\ res.of # None
  /\ Producible(res.of[1])
  /\ res.of[1].cid = Some(I64_LIMIT - 1)
  /\ res.of[1].end = U64_MAX
  /\ res.of[1].is_conformer

\* C13: from_bytes gives cid absent for a cid field of -1, and fails, and
\* returns no locator, for any other negative cid field and for a buffer
\* that is not 32 bytes long.
C13_DecodeRejectsCorrupt ==
  res.op = "from_bytes" =>
    IF BufferLen(res.buffer) # 32 THEN ~res.out.ok
    ELSE /\ res.buffer[5] = -1 => (res.out.ok /\ res.out.value[1].cid = None)
         /\ res.buffer[5] < -1 => ~res.out.ok

\* C14: to_bytes produces no bytes for a locator with file_id < 1,
\* start > end or end > 2^63.
C14_EncodeEnforcesConstraints ==
  res.op = "to_bytes" =>
    ((res.locator.file_id < 1 \/ res.locator.start > res.locator.end
        \/ res.locator.end > I64_LIMIT) => ~res.out.ok)

\* The conformer ids that occur in the corpus.
CorpusConfIds == { <<"A">>, <<"B">> }

\* C15: in every store state that builds reach, a hit of
\* get_compound_by_cid(c) has a locator that is no conformer and whose cid
\* is c or absent.
C15_CompoundHitIsCompound ==
  \A c \in CorpusCids :
    LET H == get_compound_by_cid(store, c) IN
    H # None =>
      /\ ~H[1].locator.is_conformer
      /\ H[1].locator.cid \in {Some(c), None}
C15_Witness ==
  /\ edits > 0
  /\ clock = MaxBuilds
  /\ \E c \in CorpusCids :
       /\ get_compound_by_cid(store, c) # None
       /\ iter_conformers_by_cid(store, c) # <<>>
  /\ \E c, d \in CorpusCids :
       /\ c # d
       /\ get_compound_by_cid(store, c) # None
       /\ get_compound_by_cid(store, d) # None

\* C16: in every store state that builds reach, a hit of
\* get_conformer_by_conformer_id(s) has a conformer locator and was found
\* through a record key with prefix "F".
C16_ConformerHitIsConformer ==
  \A s \in CorpusConfIds :
    LET H == get_conformer_by_conformer_id(store, s) IN
    H # None =>
      /\ H[1].locator.is_conformer
      /\ store.confid_to_conf[s][1] = "F"
C16_Witness ==
  /\ edits > 0
  /\ clock = MaxBuilds
  /\ \A s \in CorpusConfIds : get_conformer_by_conformer_id(store, s) # None
  /\ \E c \in CorpusCids : get_compound_by_cid(store, c) # None

\* The records of an index by source file and place in it, with their keys.
RecordIdentity(st) ==
  { << st.files[LocatorOf(st, k).file_id], LocatorOf(st, k).start, k >> :
      k \in DOMAIN st.records }
\* A build into a second, empty index directory returned, over the tree
\* that the first directory was built from.
SecondDirBuilt ==
  /\ prior # None
  /\ outcome = "ok"
  /\ base # None
  /\ base[1].store = EmptyStore
  /\ base[1].tree = prior[1].tree

\* C17: two builds over the same source bytes into two separate, initially
\* empty index directories give the same set of primary record keys, and
\* each record (file, place in the file) has the same ALID in both.
C17_AlidDeterminism ==
  SecondDirBuilt =>
    /\ DOMAIN store.records = DOMAIN prior[1].store.records
    /\ RecordIdentity(store) = RecordIdentity(prior[1].store)
C17_Witness ==
  /\ SecondDirBuilt
  /\ Cardinality(DOMAIN store.records) >= 4
  /\ get_meta(store)[1].built_at # get_meta(prior[1].store)[1].built_at

\* The ALIDs of a sequence that are in a set, in order.
RECURSIVE Among(_, _)
Among(alids, S) ==
  IF alids = <<>> THEN <<>>
  ELSE (IF alids[1] \in S THEN <<alids[1]>> ELSE <<>>) \o Among(Tail(alids), S)
PointLookups ==
  {"get_compound_by_cid", "get_conformer_by_conformer_id", "get_by_alid"}

C19_SchemaMismatchSurfaces ==
  (/\ res.op \in PointLookups \cup {"iter_conformers_by_cid"}
   /\ res.schema # None
   /\ res.schema # Some(SCHEMA_VERSION)) => ~res.out.ok

\* The CIDs of the posting-list tables and of the conformer records.
PostingCids == {7, 8, 9}
\* The keys of the pages table that belong to a CID key.
PageKeysOf(st, cid_k) ==
  { x \in DOMAIN st.cid2conf_p : StartsWith(x, cid_k \o <<"|">>) }

\* C21: the header table has an entry for CID c iff an indexed conformer
\* record has effective CID c; then page_count >= 1, the pages
\* 0 .. page_count - 1 exist, are not empty and hold whole ALIDs, and no
\* page of a higher number exists.
C21_HeaderIffConformerRecord ==
  \A c \in PostingCids :
    LET cid_k == CidKey(c) IN
    /\ (cid_k \in DOMAIN store.cid2conf_h)
         <=> (ConformerRecordsOf(store, c) # {})
    /\ IF cid_k \in DOMAIN store.cid2conf_h
       THEN /\ store.cid2conf_h[cid_k] >= 1
            /\ PageKeysOf(store, cid_k) =
                 { PageKey(cid_k, n) : n \in 0..(store.cid2conf_h[cid_k] - 1) }
            /\ \A k \in PageKeysOf(store, cid_k) :
                 /\ store.cid2conf_p[k] # <<>>
                 /\ BlobLen(store.cid2conf_p[k]) % 16 = 0
       ELSE PageKeysOf(store, cid_k) = {}

(***************************************************************************)
(* The record parser, line by line                                         *)
(***************************************************************************)
TerminatorLines(lines) ==
  { i \in 1..Len(lines) : Strip(lines[i]) = <<"$", "$", "$", "$">> }
LastTerminator(lines) ==
  IF TerminatorLines(lines) = {} THEN 0
  ELSE CHOOSE i \in TerminatorLines(lines) :
         \A j \in TerminatorLines(lines) : j <= i
\* The lines of the complete records of a file.
CompleteLines(lines) == SubSeq(lines, 1, LastTerminator(lines))
\* What indexing a file of the given lines commits into an empty store.
IndexedFile(lines, kind) ==
  CommitTxn(EmptyStore,
            IndexOneFile(EmptyStore, ParsedPath(kind),
                         ParseRecords(lines, kind)))
ConfidHeader == <<">", " ", "<", "C", "O", "N", "F", "I", "D", ">", "\n">>
CidHeader == <<">", " ", "<", "C", "I", "D", ">", "\n">>
ParentHeader ==
  <<">", " ", "<", "P", "A", "R", "E", "N", "T", "_", "C", "I", "D", ">",
    "\n">>

\* C22: the parser emits one record per terminator line and nothing else:
\* the records emitted so far are as many as the terminator lines read, and
\* at EOF the file has as many records entries as terminator lines and the
\* committed tables are those of the file cut after its last terminator
\* line, so the lines of a trailing partial record leave no records entry,
\* no secondary entry and no posting-list append.
C22_OneRecordPerTerminator ==
  res.op = "_index_one_file" =>
    /\ Len(res.emitted) = Cardinality(TerminatorLines(res.lines))
    /\ res.eof =>
         /\ Cardinality(DOMAIN res.txn.records)
              = Cardinality(TerminatorLines(res.lines))
         /\ res.txn = IndexedFile(CompleteLines(res.lines), res.kind)
\* A conformer file ends, after a complete record, inside a conformer-id
\* property that has a value.
C22_TrailingPartialRecord ==
  /\ res.op = "_index_one_file" /\ res.eof /\ res.kind = "conformer"
  /\ Len(res.emitted) >= 1
  /\ Len(res.lines) >= 3
  /\ LastTerminator(res.lines) = Len(res.lines) - 2
  /\ res.lines[Len(res.lines) - 1] = ConfidHeader
  /\ Strip(res.lines[Len(res.lines)]) # <<>>
  /\ res.txn.confid_to_conf # EmptyDb

RECURSIVE TotalLen(_)
TotalLen(lines) ==
  IF lines = <<>> THEN 0 ELSE Len(lines[1]) + TotalLen(Tail(lines))

\* C23: whatever the parser was doing, when the line just read is a
\* terminator line a record has been emitted whose rec_end is the file
\* offset right after that line, and the parser awaits a title with no
\* title, no open property, no cid, no conformer id and no parent cid, the
\* next record starting at that offset.
C23_TerminatorEndsRecord ==
  ( /\ res.op = "_index_one_file"
    /\ res.lines # <<>>
    /\ LastTerminator(res.lines) = Len(res.lines) ) =>
    /\ res.emitted # <<>>
    /\ res.emitted[Len(res.emitted)].rec_end = TotalLen(res.lines)
    /\ res.ps = [ ParserInit EXCEPT !.pos = TotalLen(res.lines),
                                    !.rec_start = TotalLen(res.lines),
                                    !.rec_no = Len(res.emitted) ]
\* The terminator arrives inside the value of a CID property, after a
\* record that was terminated right after a property header.
C23_TerminatorInsideProperty ==
  /\ res.op = "_index_one_file" /\ res.kind = "conformer"
  /\ Len(res.lines) = 5
  /\ res.lines[1] = ParentHeader
  /\ LastTerminator(SubSeq(res.lines, 1, 4)) = 2
  /\ res.lines[3] = CidHeader
  /\ Strip(res.lines[4]) = <<"7">>
  /\ LastTerminator(res.lines) = 5
  /\ Len(res.emitted) = 2
  /\ res.emitted[2].cid_val = Some(7)

\* The lines of the record that the last line read belongs to.
LastRecordLines(lines) ==
  SubSeq(lines, LastTerminator(SubSeq(lines, 1, Len(lines) - 1)) + 1,
         Len(lines))
\* The property headers of the three identifier categories, and the lines of
\* L that are headers of a category.
CidHeaders == {CidHeader}
ConfidHeaders == {ConfidHeader}
ParentHeaders == {CidHeader, ParentHeader}
HeadersAt(L, headers) == { i \in 1..Len(L) : L[i] \in headers }

\* C24: a terminator line is never taken as a property value: a conformer
\* record whose only conformer-id header is directly followed by the
\* terminator line is emitted without a conformer id, and no confid_to_conf
\* key is the text of the terminator.
C24_TerminatorNeverAValue ==
  res.op = "_index_one_file" =>
    /\ ( /\ res.kind = "conformer"
         /\ Len(res.lines) >= 2
         /\ LastTerminator(res.lines) = Len(res.lines)
         /\ HeadersAt(LastRecordLines(res.lines), ConfidHeaders)
              = {Len(LastRecordLines(res.lines)) - 1} )
         => res.emitted[Len(res.emitted)].conf_id_val = None
    /\ res.eof => <<"$", "$", "$", "$">> \notin DOMAIN res.txn.confid_to_conf

IsHeaderLine(l) == l \in {CidHeader, ConfidHeader, ParentHeader}
\* The lines of L from index j on that precede the next blank line and the
\* next property header.
RECURSIVE LinesUntilBlank(_, _)
LinesUntilBlank(L, j) ==
  IF j > Len(L) \/ Strip(L[j]) = <<>> \/ IsHeaderLine(L[j]) THEN <<>>
  ELSE <<L[j]>> \o LinesUntilBlank(L, j + 1)
\* The value of the property whose header is line i of the record lines L.
ValueOf(L, i) ==
  LET run == LinesUntilBlank(L, i + 1)
      nonEmpty == { j \in 1..Len(run) : Strip(run[j]) # <<>> }
  IN IF nonEmpty = {} THEN None
     ELSE Some(Strip(run[CHOOSE j \in nonEmpty : \A k \in nonEmpty : j <= k]))
AsciiDigits(v) ==
  v # <<>> /\ \A i \in 1..Len(v) : \E d \in 1..10 : v[i] = Digits[d]
\* The value of the first property of the category in L that has a value
\* (of digits only, where digits are required).
FirstOccurrence(L, headers, digitsOnly) ==
  LET ok == { i \in HeadersAt(L, headers) :
                /\ ValueOf(L, i) # None
                /\ digitsOnly => AsciiDigits(ValueOf(L, i)[1]) }
  IN IF ok = {} THEN None
     ELSE ValueOf(L, CHOOSE i \in ok : \A j \in ok : i <= j)
IntOf(v) == IF v = None THEN None ELSE Some(IntOfDigits(v[1]))
TitleOf(L) == Strip(L[1])

\* C25: in an emitted record each identifier is the value of the first
\* property of its category that has one, whatever later properties of the
\* category hold; a CID or parent-CID value that is not all digits does not
\* count and leaves the identifier to a later property or absent; the
\* digits of the title line of a compound record come before any CID
\* property.
C25_FirstOccurrenceRetained ==
  ( /\ res.op = "_index_one_file"
    /\ res.lines # <<>>
    /\ LastTerminator(res.lines) = Len(res.lines) ) =>
    LET L == LastRecordLines(res.lines)
        r == res.emitted[Len(res.emitted)]
    IN /\ r.conf_id_val = FirstOccurrence(L, ConfidHeaders, FALSE)
       /\ r.parent_cid_val = IntOf(FirstOccurrence(L, ParentHeaders, TRUE))
       /\ r.cid_val =
            IF res.kind = "compound" /\ AsciiDigits(TitleOf(L))
            THEN Some(IntOfDigits(TitleOf(L)))
            ELSE IntOf(FirstOccurrence(L, CidHeaders, TRUE))
\* A record with two CID properties of different values.
C25_TwoCidProperties ==
  /\ res.op = "_index_one_file" /\ res.kind = "conformer"
  /\ Len(res.lines) = 5
  /\ res.lines[1] = CidHeader /\ Strip(res.lines[2]) = <<"7">>
  /\ res.lines[3] = CidHeader /\ Strip(res.lines[4]) = <<"8">>
  /\ LastTerminator(res.lines) = 5
  /\ res.emitted[1].cid_val = Some(7)

\* C26: the conformer id of a record with one conformer-id property is the
\* first non-empty stripped line among the lines of the record that follow
\* the header and precede the next blank line or property header, and is
\* absent when there is no such line.
C26_ValueIsFirstLineBeforeBlank ==
  ( /\ res.op = "_index_one_file" /\ res.kind = "conformer"
    /\ res.lines # <<>>
    /\ LastTerminator(res.lines) = Len(res.lines)
    /\ Cardinality(HeadersAt(LastRecordLines(res.lines), ConfidHeaders)) = 1 )
  =>
    LET L == LastRecordLines(res.lines)
        i == CHOOSE k \in HeadersAt(L, ConfidHeaders) : TRUE
    IN res.emitted[Len(res.emitted)].conf_id_val = ValueOf(L, i)
\* Two value lines, a blank line and a further line follow the header.
C26_LinesAfterBlankLine ==
  /\ res.op = "_index_one_file" /\ res.kind = "conformer"
  /\ Len(res.lines) = 5
  /\ res.lines[1] = ConfidHeader
  /\ Strip(res.lines[2]) = <<"7">>
  /\ Strip(res.lines[3]) = <<>>
  /\ Strip(res.lines[4]) = <<"8">>
  /\ LastTerminator(res.lines) = 5
  /\ res.emitted[1].conf_id_val = Some(<<"7">>)

\* The index of the n-th terminator line of lines (0 for n = 0), and the
\* lines of the n-th record.
TerminatorIndex(lines, n) ==
  IF n = 0 THEN 0
  ELSE CHOOSE i \in TerminatorLines(lines) :
         Cardinality({ j \in TerminatorLines(lines) : j <= i }) = n
RecordLinesOf(lines, n) ==
  SubSeq(lines, TerminatorIndex(lines, n - 1) + 1, TerminatorIndex(lines, n))
ParsedCid(L, kind) ==
  IF kind = "compound" /\ AsciiDigits(TitleOf(L))
  THEN Some(IntOfDigits(TitleOf(L)))
  ELSE IntOf(FirstOccurrence(L, CidHeaders, TRUE))
ParsedParentCid(L) == IntOf(FirstOccurrence(L, ParentHeaders, TRUE))
EffectiveCid(L, kind) ==
  IF kind = "compound" \/ ParsedCid(L, kind) # None THEN ParsedCid(L, kind)
  ELSE ParsedParentCid(L)
\* How often an ALID occurs in the posting list of a CID.
PostingOccurrences(st, c, alid) ==
  LET alids == PagesConcat(st, CidKey(c), PageCount(st, CidKey(c)))
  IN Cardinality({ i \in 1..Len(alids) : alids[i] = alid })
ParserCids == {7, 8}

\* C27: after a file was indexed, each of its records has a records entry
\* over its byte range whose cid is the effective CID: for a compound the
\* parsed CID (title digits, else first CID property) or absent; for a
\* conformer the parsed CID, else the parent CID, else absent.  A conformer
\* is in the posting list of a CID, once, iff that CID is its effective CID.
C27_EffectiveCid ==
  (res.op = "_index_one_file" /\ res.eof) =>
    \A n \in 1..Cardinality(TerminatorLines(res.lines)) :
      LET L == RecordLinesOf(res.lines, n)
          eff == EffectiveCid(L, res.kind)
          from == TotalLen(SubSeq(res.lines, 1,
                                  TerminatorIndex(res.lines, n - 1)))
          to == TotalLen(SubSeq(res.lines, 1, TerminatorIndex(res.lines, n)))
      IN \E k \in DOMAIN res.txn.records :
           /\ LocatorOf(res.txn, k).start = from
           /\ LocatorOf(res.txn, k).end = to
           /\ LocatorOf(res.txn, k).is_conformer = (res.kind = "conformer")
           /\ LocatorOf(res.txn, k).cid = eff
           /\ \A c \in ParserCids :
                PostingOccurrences(res.txn, c, AlidOfKey(k)) =
                  IF res.kind = "conformer" /\ eff = Some(c) THEN 1 ELSE 0
\* A conformer record with a parent CID 7 and then a CID 8 was indexed.
C27_CidBeforeParent ==
  /\ res.op = "_index_one_file" /\ res.eof /\ res.kind = "conformer"
  /\ Len(res.lines) = 5
  /\ res.lines[1] = ParentHeader /\ Strip(res.lines[2]) = <<"7">>
  /\ res.lines[3] = CidHeader /\ Strip(res.lines[4]) = <<"8">>
  /\ LastTerminator(res.lines) = 5
  /\ res.emitted[1].parent_cid_val = Some(7)
  /\ PageCount(res.txn, CidKey(8)) = 1

(***************************************************************************)
(* File classification                                                     *)
(***************************************************************************)
BaseName(p) == p[Len(p)]

\* C28: with the default patterns a file is a conformer file iff its
\* lowercased base name contains "conf", also when the name contains
\* "compound" or "cmpd" as well, and every other file is a compound file;
\* the directories of the path do not count.
C28_ConformerIffNameHasConf ==
  res.op = "_determine_kind" =>
    /\ res.kind \in {"conformer", "compound"}
    /\ res.kind = "conformer"
         <=> Contains(Lower(BaseName(res.path)), <<"c", "o", "n", "f">>)
\* A name with "compound" and, in capitals, "conf" was classified.
C28_NameMatchesBoth ==
  /\ res.op = "_determine_kind"
  /\ Contains(BaseName(res.path),
              <<"c", "o", "m", "p", "o", "u", "n", "d">>)
  /\ Contains(BaseName(res.path), <<"C", "O", "N", "F">>)
  /\ res.kind = "conformer"

(***************************************************************************)
(* Key collisions and stranded entries                                     *)
(***************************************************************************)
\* The positions in recs of the records that carry the secondary key x: the
\* conformer id in a conformer file, the CID in a compound file.
SecondaryKeyOf(kind, rec) ==
  IF kind = "conformer" THEN rec.conf_id_val
  ELSE IF rec.cid_val = None THEN None ELSE Some(CidKey(rec.cid_val[1]))
Carrying(kind, recs, x) ==
  { i \in 1..Len(recs) : SecondaryKeyOf(kind, recs[i]) = Some(x) }
SecondaryTable(st, kind) ==
  IF kind = "conformer" THEN st.confid_to_conf ELSE st.cid_to_compound

\* C29: when a build has indexed a file, each secondary key carried by
\* records of the file points to the last of them in the file, whatever
\* record of an earlier file or build it pointed to; the other secondary
\* keys point where they did; every record of the file, and every record
\* written before, has its own records entry that get_by_alid returns.
C29_LastWriterWins ==
  [][ (pc = "indexing" /\ queue # <<>> /\ queue' = Tail(queue)
         /\ pc' = "indexing") =>
      LET p == Head(queue)
          kind == KindOf(p)
          recs == ParseRecords(FileLines(tree[p]), kind)
          before == SecondaryTable(store, kind)
          after == SecondaryTable(store', kind)
      IN /\ \A i \in 1..Len(recs) :
              SecondaryKeyOf(kind, recs[i]) # None =>
                LET x == SecondaryKeyOf(kind, recs[i])[1]
                    last == CHOOSE j \in Carrying(kind, recs, x) :
                              \A m \in Carrying(kind, recs, x) : m <= j
                    loc == LocatorOf(store', after[x])
                IN /\ x \in DOMAIN after
                   /\ resolve_file_path(store', loc.file_id)
                        = Some(RelPath(p))
                   /\ loc.start = recs[last].rec_start
         /\ \A x \in DOMAIN before :
              Carrying(kind, recs, x) = {} => after[x] = before[x]
         /\ \A i \in 1..Len(recs) :
              \E k \in DOMAIN store'.records :
                LET hit == get_by_alid(store', AlidOfKey(k), None) IN
                /\ hit # None
                /\ resolve_file_path(store', hit[1].locator.file_id)
                     = Some(RelPath(p))
                /\ hit[1].locator.start = recs[i].rec_start
                /\ hit[1].locator.end = recs[i].rec_end
         /\ \A k \in DOMAIN store.records :
              get_by_alid(store', AlidOfKey(k), None) # None
    ]_vars
\* A completed build indexed a/conf.sdf, whose two records have the
\* conformer id A, and then a-conf.sdf, whose first record has it too.
C29_ThreeRecordsOneConformerId ==
  /\ outcome = "ok"
  /\ PathA \in DOMAIN tree /\ tree[PathA] = "K3"
  /\ PathB \in DOMAIN tree /\ tree[PathB] = "K2"
  /\ <<"A">> \in DOMAIN store.confid_to_conf
  /\ resolve_file_path(store,
                       LocatorOf(store, store.confid_to_conf[<<"A">>]).file_id)
       = Some(RelPath(PathB))
  /\ Cardinality({ k \in DOMAIN store.records :
                     LocatorOf(store, k).is_conformer }) >= 4

\* The tables of the index other than meta.
KeyedTables(st) ==
  << st.records, st.files, st.files_rev, st.cid_to_compound,
     st.confid_to_conf, st.cid2conf_h, st.cid2conf_p >>
IsPrefixOf(s, u) == Len(s) <= Len(u) /\ SubSeq(u, 1, Len(s)) = s
\* The step is the end of _index_one_file for the file p.
IndexedNow(p) ==
  /\ pc = "indexing" /\ pc' = "indexing"
  /\ queue # <<>> /\ queue' = Tail(queue) /\ p = Head(queue)
WrittenBy(p, k) ==
  resolve_file_path(store, LocatorOf(store, k).file_id) = Some(RelPath(p))

\* C30: no step of a build or between builds removes a key of records,
\* files, files_rev, cid_to_compound, confid_to_conf or the posting-list
\* tables.  A records entry changes only while its own file is indexed, a
\* secondary entry only while a file with a record of that identifier is
\* indexed, a posting page only grows: so the entries of a file that was
\* removed stay and the lookups return what they returned.
C30_BuildNeverDeletes ==
  [][ /\ \A t \in 1..7 :
           DOMAIN KeyedTables(store)[t] \subseteq DOMAIN KeyedTables(store')[t]
      /\ \A k \in DOMAIN store.records :
           \/ store'.records[k] = store.records[k]
           \/ \E p \in DOMAIN tree : IndexedNow(p) /\ WrittenBy(p, k)
      /\ \A k \in DOMAIN store.files : store'.files[k] = store.files[k]
      /\ \A k \in DOMAIN store.files_rev :
           store'.files_rev[k] = store.files_rev[k]
      /\ \A x \in DOMAIN store.confid_to_conf :
           \/ get_conformer_by_conformer_id(store', x)
                = get_conformer_by_conformer_id(store, x)
           \/ \E p \in DOMAIN tree :
                /\ IndexedNow(p)
                /\ Carrying(KindOf(p),
                            ParseRecords(FileLines(tree[p]), KindOf(p)), x) # {}
      /\ \A x \in DOMAIN store.cid_to_compound :
           \/ LookupVia(store', store'.cid_to_compound, x)
                = LookupVia(store, store.cid_to_compound, x)
           \/ \E p \in DOMAIN tree :
                /\ IndexedNow(p)
                /\ Carrying(KindOf(p),
                            ParseRecords(FileLines(tree[p]), KindOf(p)), x) # {}
      /\ \A x \in DOMAIN store.cid2conf_h :
           store'.cid2conf_h[x] >= store.cid2conf_h[x]
      /\ \A x \in DOMAIN store.cid2conf_p :
           IsPrefixOf(store.cid2conf_p[x], store'.cid2conf_p[x])
    ]_vars
\* a-conf.sdf was indexed and removed, and a build of the tree without it
\* has completed: the conformer id A still leads to a record of that file.
C30_RemovedFileStillFound ==
  /\ outcome = "ok"
  /\ base # None /\ base[1].tree = tree
  /\ PathB \notin DOMAIN tree
  /\ get_conformer_by_conformer_id(store, <<"A">>) # None
  /\ resolve_file_path(
       store,
       get_conformer_by_conformer_id(store, <<"A">>)[1].locator.file_id)
       = Some(RelPath(PathB))

(***************************************************************************)
(* Record numbers and byte ranges                                          *)
(***************************************************************************)
\* C31: the records emitted for a file are numbered 0, 1, 2, ... in order;
\* the first starts at offset 0, each later one starts where the one before
\* it ends, each ends after it starts, and the last ends right after the
\* last terminator line read.
C31_RecordsTileThePrefix ==
  res.op = "_index_one_file" =>
    /\ \A n \in 1..Len(res.emitted) :
         /\ res.emitted[n].rec_no = n - 1
         /\ res.emitted[n].rec_start =
              (IF n = 1 THEN 0 ELSE res.emitted[n - 1].rec_end)
         /\ res.emitted[n].rec_end > res.emitted[n].rec_start
    /\ res.emitted # <<>> =>
         res.emitted[Len(res.emitted)].rec_end
           = TotalLen(CompleteLines(res.lines))
\* Three records were emitted, the second of more than one line.
C31_ThreeRecords ==
  /\ res.op = "_index_one_file"
  /\ Len(res.emitted) = 3
  /\ TerminatorIndex(res.lines, 2) > TerminatorIndex(res.lines, 1) + 1

(***************************************************************************)
(* The frame of a posting-list append                                      *)
(***************************************************************************)
PostingPageKey(c, n) == DecStr(c) \o <<"|">> \o DecStr(n)
HeaderOf(st, c) ==
  IF DecStr(c) \in DOMAIN st.cid2conf_h THEN st.cid2conf_h[DecStr(c)] ELSE 0
\* db2 is db1 with the value v under the key k, and nothing else changed.
OnlyChanged(db1, db2, k, v) ==
  /\ DOMAIN db2 = DOMAIN db1 \cup {k}
  /\ db2[k] = v
  /\ \A x \in DOMAIN db1 : x # k => db2[x] = db1[x]

\* C32: an append of one ALID for CID c either extends the last page of c
\* by that ALID and leaves every header as it is, or creates the page
\* number page_count with that ALID alone and raises the header of c by
\* one; every other page and header, and every other table, is as before;
\* and each page of a CID but its last holds PL_PAGE_SIZE ALIDs.
C32_AppendFrame ==
  [][ res'.op = "_pl_append" =>
      LET c == res'.cid
          n == HeaderOf(store, c)
          last == PostingPageKey(c, n - 1)
      IN /\ \/ /\ n >= 1
               /\ last \in DOMAIN store.cid2conf_p
               /\ OnlyChanged(store.cid2conf_p, store'.cid2conf_p, last,
                              store.cid2conf_p[last] \o <<res'.uuid16>>)
               /\ store'.cid2conf_h = store.cid2conf_h
            \/ /\ PostingPageKey(c, n) \notin DOMAIN store.cid2conf_p
               /\ OnlyChanged(store.cid2conf_p, store'.cid2conf_p,
                              PostingPageKey(c, n), <<res'.uuid16>>)
               /\ OnlyChanged(store.cid2conf_h, store'.cid2conf_h,
                              DecStr(c), n + 1)
         /\ Tables(store').records = Tables(store).records
         /\ store'.cid_to_compound = store.cid_to_compound
         /\ store'.confid_to_conf = store.confid_to_conf
         /\ store'.files = store.files /\ store'.files_rev = store.files_rev
         /\ store'.meta_json = store.meta_json
         /\ \A d \in AppendCids :
              \A m \in 0..(HeaderOf(store', d) - 2) :
                /\ PostingPageKey(d, m) \in DOMAIN store'.cid2conf_p
                /\ Len(store'.cid2conf_p[PostingPageKey(d, m)]) = PL_PAGE_SIZE
    ]_vars
\* The last append opened the second page of CID 7, beside a page of CID 8.
C32_SecondPageOpened ==
  /\ res.op = "_pl_append" /\ res.cid = 7
  /\ HeaderOf(store, 7) = 2
  /\ Len(store.cid2conf_p[PostingPageKey(7, 1)]) = 1
  /\ HeaderOf(store, 8) = 1

(***************************************************************************)
(* ALIDs of distinct records                                               *)
(***************************************************************************)
\* The tuple an ALID is derived from.
AlidTuple(x) ==
  LET kind == KindOf(x.path) IN
  << kind, RelPath(x.path), x.rec.rec_no,
     IF kind = "compound"
     THEN (IF x.rec.cid_val = None THEN <<>> ELSE DecStr(x.rec.cid_val[1]))
     ELSE (IF x.rec.conf_id_val = None THEN <<>> ELSE x.rec.conf_id_val[1]) >>

\* C33: two records whose tuples (kind, relative path, rec_no, primary id)
\* differ get different ALIDs, also when the path or the conformer id
\* contains "|", and two records of different files or numbers have two
\* entries in the records table after both were written.
C33_DistinctRecordsDistinctAlids ==
  res.op = "_make_alid" =>
    /\ AlidTuple(res.a) # AlidTuple(res.b) => res.alid_a # res.alid_b
    /\ << res.a.path, res.a.rec.rec_no >> # << res.b.path, res.b.rec.rec_no >>
         => Cardinality(DOMAIN res.txn.records) = 2

(***************************************************************************)
(* The totals of a run                                                     *)
(***************************************************************************)
\* The terminator lines of the *.sdf files among S of the tree t.
RECURSIVE TerminatorsIn(_, _)
TerminatorsIn(t, S) ==
  IF S = {} THEN 0
  ELSE LET p == CHOOSE q \in S : TRUE
       IN Cardinality(TerminatorLines(FileLines(t[p])))
            + TerminatorsIn(t, S \ {p})
SdfFilesOf(t) ==
  { p \in DOMAIN t :
      Len(p[Len(p)]) >= 4
        /\ SubSeq(p[Len(p)], Len(p[Len(p)]) - 3, Len(p[Len(p)]))
             = <<".", "s", "d", "f">> }

\* C34: after a run that completed, the stored meta, which is the one
\* returned, has total_records = total_compound_records +
\* total_conformer_records = the terminator lines of the *.sdf files of the
\* tree the run saw, and total_files = the number of these files; while a
\* run is under way and after a run that stopped part-way, the stored meta
\* is the one written at the start of that run, without totals.
C34_TotalsOfTheRun ==
  /\ outcome = "ok" =>
       /\ store.meta_json # None /\ store.meta_json[1].stats # None
       /\ done # None /\ done[1].store.meta_json = store.meta_json
       /\ LET s == store.meta_json[1].stats[1]
              t == base[1].tree
          IN /\ s.total_records
                  = s.total_compound_records + s.total_conformer_records
             /\ s.total_records = TerminatorsIn(t, SdfFilesOf(t))
             /\ s.total_files = Cardinality(SdfFilesOf(t))
  /\ outcome \in {"running", "error"} =>
       /\ store.meta_json # None
       /\ store.meta_json[1].stats = None
       /\ store.meta_json[1].built_at = clock
\* A second run completed on a tree of three files, one run before it
\* having stopped part-way or completed.
C34_SecondRunCompleted ==
  /\ outcome = "ok" /\ clock = 2
  /\ Cardinality(DOMAIN base[1].tree) = 3
  /\ store.meta_json[1].stats[1].total_files = 3
  /\ store.meta_json[1].stats[1].total_compound_records >= 1
  /\ store.meta_json[1].stats[1].total_conformer_records >= 2

\* ---------------------------------------------------------------------
\* C35: on a store that is not being written, a batch lookup yields one pair
\* per input key, in input order and with repetitions kept, and the second
\* component of each pair is what the point lookup returns for that key, for
\* every chunk_size of at least 1.
PointLookup(st, op, key) ==
  IF op = "batch_get_compounds_by_cid" THEN get_compound_by_cid(st, key)
  ELSE get_conformer_by_conformer_id(st, key)
BatchOps == { "batch_get_compounds_by_cid", "batch_get_conformers_by_conformer_id" }
C35_BatchEqualsPointLookups ==
  res.op \in BatchOps =>
    /\ res.chunk_size >= 1
    /\ Len(res.out) = Len(res.keys)
    /\ \A i \in 1..Len(res.keys) :
         res.out[i] = << res.keys[i], PointLookup(store, res.op, res.keys[i]) >>
\* A call with a repeated key, a hit and a miss, whose last chunk is partial.
C35_PartialChunkWithRepeats ==
  /\ res.op \in BatchOps
  /\ Len(res.keys) = 3
  /\ res.chunk_size = 2
  /\ res.keys[1] = res.keys[2]
  /\ res.out[1][2] # None
  /\ res.out[3][2] = None


\* ---------------------------------------------------------------------
\* C36: download_worker terminates after at most 1 + MAX_RETRIES = 3 runs of
\* the command: it returns success at the first run that succeeds, returns
\* (False, "Failed after retries") after the third consecutive
\* CalledProcessError, returns failure at once on any other exception, and
\* sleeps RETRY_DELAY only between two attempts, never after the last one.
RunsIn(events) == { i \in 1..Len(events) : events[i] # "sleep" }
SleepsIn(events) == { i \in 1..Len(events) : events[i] = "sleep" }
WorkerFinished == res.op = "download_worker" /\ res.at \in {"returned", "raised"}
C36_WorkerSafety ==
  res.op = "download_worker" =>
    LET ev == res.events
        n == Len(ev)
    IN
    /\ 1 + MAX_RETRIES = 3
    /\ Cardinality(RunsIn(ev)) <= 1 + MAX_RETRIES
    \* runs and sleeps alternate, the first event being a run; a run that is
    \* followed by anything raised CalledProcessError
    /\ \A i \in 1..n : (ev[i] = "sleep") <=> (i % 2 = 0)
    /\ \A i \in 1..n : i < n /\ ev[i] # "sleep" => ev[i] = "cpe"
    /\ res.slept = RETRY_DELAY * Cardinality(SleepsIn(ev))
    /\ res.at = "returned" =>
         /\ n >= 1
         /\ ev[n] # "sleep"
         /\ ev[n] = "ok" <=> res.ret[1].value[1][1]
         /\ ev[n] = "ok" => res.ret[1].value[1][2] = "Success"
         /\ ev[n] = "exc" => res.ret[1].value[1][2] \in OtherExceptions
         /\ ev[n] = "cpe" =>
              /\ Cardinality(RunsIn(ev)) = 3
              /\ res.ret[1].value[1] = << FALSE, "Failed after retries",
                                   BaseUrl \o res.href, res.href >>
    /\ res.at \in {"run", "sleep"} => res.ret = None
    /\ res.at = "sleep" => Cardinality(RunsIn(ev)) < 1 + MAX_RETRIES
C36_WorkerTerminates ==
  /\ []C36_WorkerSafety
  /\ (res.op = "download_worker") ~> WorkerFinished
\* The worker gave up after three failed runs and two sleeps.
C36_FailedAfterRetries ==
  /\ WorkerFinished
  /\ res.events = << "cpe", "sleep", "cpe", "sleep", "cpe" >>
  /\ res.slept = 2 * RETRY_DELAY
  /\ res.ret[1].value[1][2] = "Failed after retries"

=============================================================================
